---- MODULE Spec2Model ----
(***************************************************************************)
(* Model of the knowledge-graph ingestion service: the row-by-row          *)
(* reconciler of the process route (entity upsert, self-healing edges,     *)
(* NEXT chaining), the mapping memory of the process/analyze routes and    *)
(* the strict graph read of useGraph/graph-operations.                     *)
(*                                                                         *)
(* Strings the code transforms character by character (labels,            *)
(* relationship types) are sequences of one-character strings.  The store  *)
(* (SurrealDB) is modelled by the effect of the client calls the code      *)
(* makes: create fails when the record id exists, merge deep-merges the    *)
(* given fields into the record, RELATE appends an edge record with in/out *)
(* pointers, DEFINE TABLE adds the table to the catalog.                   *)
(***************************************************************************)
EXTENDS Integers, Sequences, FiniteSets, TLC

(***************************************************************************)
(* Bounds of the model                                                     *)
(***************************************************************************)
NumRuns == 2
MaxLines == 3
MaxTotalRows == 3
MaxFaultyRows == 1
NumSavers == 2
NumLearners == 3
MaxLabelLen == 3
MaxInitRetries == 2
MaxExcessRows == 2

Runs == 1 .. NumRuns
Savers == 1 .. NumSavers
Learners == 1 .. NumLearners

(***************************************************************************)
(* Characters and the string functions of the routes                       *)
(***************************************************************************)
\* the characters of the model's strings, in UTF-16 code order
Ascii ==
  <<" ", ",", "-", "0", "1", "2",
    "A", "B", "C", "D", "E", "F", "G", "H", "I", "J", "K", "L", "M",
    "N", "O", "P", "Q", "R", "S", "T", "U", "V", "W", "X", "Y", "Z",
    "_",
    "a", "b", "c", "d", "e", "f", "g", "h", "i", "j", "k", "l", "m",
    "n", "o", "p", "q", "r", "s", "t", "u", "v", "w", "x", "y", "z",
    "|", "'", "\"">>

CodeOf ==
  [c \in {Ascii[i] : i \in 1 .. Len(Ascii)} |-> CHOOSE i \in 1 .. Len(Ascii) : Ascii[i] = c]
CharCode(c) == CodeOf[c]

FirstUpper == CharCode("A")
FirstLower == CharCode("a")
IsUpper(c) == CharCode(c) >= FirstUpper /\ CharCode(c) <= CharCode("Z")
IsLower(c) == CharCode(c) >= FirstLower /\ CharCode(c) <= CharCode("z")
IsDigit(c) == CharCode(c) >= CharCode("0") /\ CharCode(c) <= CharCode("2")

toLowerCase(c) == IF IsUpper(c) THEN Ascii[CharCode(c) - FirstUpper + FirstLower] ELSE c
toUpperCase(c) == IF IsLower(c) THEN Ascii[CharCode(c) - FirstLower + FirstUpper] ELSE c

\* the character class [a-zA-Z0-9_] of the replace() calls
IsWordChar(c) == IsUpper(c) \/ IsLower(c) \/ IsDigit(c) \/ c = "_"

IsSpace(c) == c = " "

RECURSIVE trimStart(_)
trimStart(s) ==
  IF s = <<>> THEN <<>>
  ELSE IF IsSpace(Head(s)) THEN trimStart(Tail(s)) ELSE s

RECURSIVE trimEnd(_)
trimEnd(s) ==
  IF s = <<>> THEN <<>>
  ELSE IF IsSpace(s[Len(s)]) THEN trimEnd(SubSeq(s, 1, Len(s) - 1)) ELSE s

trim(s) == trimEnd(trimStart(s))

\* a replace that drops the characters outside [a-zA-Z0-9_]
replaceNonWord_strip(s) == SelectSeq(s, IsWordChar)

\* s.replace(/[^a-zA-Z0-9_]/g, '_')
replaceNonWord(s) == [i \in 1 .. Len(s) |-> IF IsWordChar(s[i]) THEN s[i] ELSE "_"]

lowerStr(s) == [i \in 1 .. Len(s) |-> toLowerCase(s[i])]
upperStr(s) == [i \in 1 .. Len(s) |-> toUpperCase(s[i])]

\* String.prototype.includes
includes(s, sub) ==
  \E i \in 0 .. Len(s) - Len(sub) : SubSeq(s, i + 1, i + Len(sub)) = sub

UnknownKey == <<"u", "n", "k", "n", "o", "w", "n">>
UndefinedStr == <<"u", "n", "d", "e", "f", "i", "n", "e", "d">>

\* const sanitizeId = (label) => label ? label.trim().replace(...).toLowerCase() : "unknown"
sanitizeId(label) ==
  IF label = <<>> THEN UnknownKey
  ELSE lowerStr(replaceNonWord(trim(label)))

\* `entity:${sanitizeId(label)}`
EntityId(label) == <<"entity", sanitizeId(label)>>

RelatedTo == <<"R", "E", "L", "A", "T", "E", "D", "_", "T", "O">>
NextTable == <<"N", "E", "X", "T">>
\* SET type='Sequence' of the chain edge; an edge written without a type
SequenceType == <<"S", "e", "q", "u", "e", "n", "c", "e">>
NoType == <<>>

\* (rel.type || "RELATED_TO").replace(/[^a-zA-Z0-9_]/g, '_').toUpperCase()
relTypeOf(type) ==
  upperStr(replaceNonWord(IF type = <<>> THEN RelatedTo ELSE type))

(***************************************************************************)
(* Extraction results (the JSON the LLM returns for one row)               *)
(***************************************************************************)
PropKeys == {"timestamp", "note"}
Absent == 0
\* an object of properties: every key is absent or carries a value
EmptyProps == [k \in PropKeys |-> Absent]
Props(ts, note) == [k \in PropKeys |-> IF k = "timestamp" THEN ts ELSE note]

\* ['Event', 'Activity', 'Transaction', 'Log']
EventTypes == {"Event", "Activity", "Transaction", "Log"}

\* an extracted entity; type "" and hasProps FALSE stand for a missing field
Ent(label, type, hasProps, props) ==
  [label |-> label, type |-> type, hasProps |-> hasProps, properties |-> props]

\* an extracted relationship; <<>> stands for a missing or empty field
Rel(from, to, type) == [from |-> from, to |-> to, type |-> type]

Result(ents, rels) == [entities |-> ents, relationships |-> rels]

EmptyResult == Result(<<>>, <<>>)

EvLogin    == Ent(<<"A">>, "Event", TRUE, Props(1, Absent))
PersonA    == Ent(<<"a">>, "Person", TRUE, Props(2, 1))
EvBuy      == Ent(<<" ", "b">>, "Event", FALSE, EmptyProps)
ActBuy     == Ent(<<"b">>, "Activity", TRUE, Props(Absent, 1))
EvLog      == Ent(<<"c", "-", "1">>, "Log", FALSE, EmptyProps)
UntypedB   == Ent(<<"B">>, "", TRUE, Props(Absent, 2))
NoLabelEv  == Ent(<<>>, "Event", FALSE, EmptyProps)

RelAtoD    == Rel(<<"a">>, <<"d">>, <<>>)
RelBtoA    == Rel(<<"b">>, <<"A">>, <<"h", "-", "x">>)
RelDtoE    == Rel(<<"D">>, <<"e", " ">>, <<"h", "_", "x">>)
RelNoFrom  == Rel(<<>>, <<"c">>, <<"n">>)
RelNoTo    == Rel(<<"c">>, <<>>, <<"n">>)
RelCtoB    == Rel(<<"c", "-", "1">>, <<"B">>, <<>>)

\* the contents the LLM may answer with for a row (parsed by parseExtractionResult)
Extractions ==
  { EmptyResult,
    Result(<<EvLogin>>, <<>>),
    Result(<<EvBuy>>, <<>>),
    Result(<<EvLog>>, <<RelCtoB>>),
    Result(<<PersonA>>, <<RelAtoD, RelNoTo>>),
    Result(<<EvLogin, ActBuy>>, <<RelBtoA>>),
    Result(<<NoLabelEv, UntypedB>>, <<RelNoFrom, RelDtoE>>) }

\* a response: content that JSON.parse accepts, or content it rejects
Parsable(x) == [parses |-> TRUE, result |-> x]
BadJson == [parses |-> FALSE, result |-> EmptyResult]

(***************************************************************************)
(* The extraction adapter (azure-openai.ts)                                *)
(***************************************************************************)
maxRetries == 3

\* a parser that answers unparsable content with an entity of its own
parseExtractionResult_guess(content) ==
  IF content.parses THEN content.result ELSE Result(<<EvLogin>>, <<>>)

\* parseExtractionResult: unparsable content gives the empty result
parseExtractionResult(content) ==
  IF content.parses THEN content.result ELSE EmptyResult

baseDelay == 1000

\* a wait of baseDelay whatever the attempt
backoff_constant(attempt) == baseDelay

\* this.baseDelay * Math.pow(2, attempt - 1)
backoff(attempt) == baseDelay * 2 ^ (attempt - 1)

\* the while loop of callOpenAI when the first `failures` calls of
\* getChatCompletions fail and the next one answers `content`;
\* trace = the calls made and the sleeps taken so far
RECURSIVE retryLoop(_, _, _, _)
retryLoop(attempt, failures, content, trace) ==
  IF attempt < maxRetries
  THEN IF trace.calls < failures
       THEN IF attempt + 1 >= maxRetries
            THEN [threw |-> TRUE, result |-> EmptyResult,
                  calls |-> trace.calls + 1, delays |-> trace.delays]
            ELSE retryLoop(attempt + 1, failures, content,
                           [calls |-> trace.calls + 1,
                            delays |-> Append(trace.delays, backoff(attempt + 1))])
       ELSE [threw |-> FALSE, result |-> parseExtractionResult(content),
             calls |-> trace.calls + 1, delays |-> trace.delays]
  ELSE [threw |-> TRUE, result |-> EmptyResult, calls |-> trace.calls, delays |-> trace.delays]

\* callOpenAI: it throws once attempt >= maxRetries
callOpenAI(failures, content) ==
  retryLoop(0, failures, content, [calls |-> 0, delays |-> <<>>])

Contents == {BadJson} \cup {Parsable(x) : x \in Extractions}

(***************************************************************************)
(* The store, as the client calls of the routes use it                     *)
(***************************************************************************)
NoId == <<>>

\* what can go wrong at the store while one row is written
Faults == {"none", "entity", "heal", "define", "relate", "next"}

Node(id, label, type, props, doc) ==
  [id |-> id, label |-> label, type |-> type, properties |-> props, source |-> doc]

HasNode(ent, id) == \E n \in ent : n.id = id
NodeOf(ent, id) == CHOOSE n \in ent : n.id = id

\* a merge that replaces the stored properties object by the given one
mergeProps_replace(old, new) == new

\* db.merge(id, {properties: p}): the object is merged key by key into the
\* stored properties, the other fields of the record are left alone
mergeProps(old, new) ==
  [k \in PropKeys |-> IF new[k] # Absent THEN new[k] ELSE old[k]]

dbMergeProperties(ent, id, props) ==
  {IF n.id = id THEN [n EXCEPT !.properties = mergeProps(n.properties, props)] ELSE n : n \in ent}

Edge(table, from, to, doc, type, confidence) ==
  [table |-> table, in |-> from, out |-> to, source |-> doc,
   type |-> type, confidence |-> confidence]

(***************************************************************************)
(* One row of the reconciler (process route, NEXT-chaining variant)        *)
(***************************************************************************)
\* an entity loop in which the first event-like entity of the row stays current
upsertEntity_firstEvent(st, e, doc, fault) ==
  IF e.label = <<>> THEN st
  ELSE
    LET id == EntityId(e.label)
        cur == IF e.type \in EventTypes /\ st.cur = NoId THEN id ELSE st.cur
        props == IF e.hasProps THEN e.properties ELSE EmptyProps
    IN IF fault = "entity"
       THEN [st EXCEPT !.cur = cur, !.threw = TRUE]
       ELSE IF ~HasNode(st.ent, id)
       THEN [st EXCEPT !.cur = cur, !.n = @ + 1,
               !.ent = @ \cup {Node(id, e.label, IF e.type = "" THEN "Concept" ELSE e.type,
                                    props, doc)}]
       ELSE [st EXCEPT !.cur = cur, !.n = @ + 1,
               !.ent = dbMergeProperties(@, id, props)]

\* A. Insert Entities: one iteration of the loop over result.entities.
\* st = [ent, cur, n, threw]; a failed create falls back to merge, and a
\* failed merge throws out of the loop.
upsertEntity(st, e, doc, fault) ==
  IF e.label = <<>> THEN st
  ELSE
    LET id == EntityId(e.label)
        cur == IF e.type \in EventTypes THEN id ELSE st.cur
        props == IF e.hasProps THEN e.properties ELSE EmptyProps
    IN IF fault = "entity"
       THEN [st EXCEPT !.cur = cur, !.threw = TRUE]
       ELSE IF ~HasNode(st.ent, id)
       THEN [st EXCEPT !.cur = cur, !.n = @ + 1,
               !.ent = @ \cup {Node(id, e.label, IF e.type = "" THEN "Concept" ELSE e.type,
                                    props, doc)}]
       ELSE [st EXCEPT !.cur = cur, !.n = @ + 1,
               !.ent = dbMergeProperties(@, id, props)]

RECURSIVE insertEntities(_, _, _, _, _)
insertEntities(st, ents, i, doc, fault) ==
  IF i > Len(ents) \/ st.threw THEN st
  ELSE insertEntities(upsertEntity(st, ents[i], doc, fault), ents, i + 1, doc, fault)

\* the relationship loop without self-healing
healNode_skipped(ent, label, doc, fault) == ent

\* a placeholder write that replaces the record of an id that exists
healNode_overwrite(ent, label, doc, fault) ==
  LET id == EntityId(label)
  IN IF fault = "heal" THEN ent
     ELSE {n \in ent : n.id # id} \cup {Node(id, label, "Implicit", EmptyProps, doc)}

\* SELF-HEALING: try { db.create(id, {label, type: "Implicit", metadata}) } catch {}
healNode(ent, label, doc, fault) ==
  LET id == EntityId(label)
  IN IF HasNode(ent, id) \/ fault = "heal" THEN ent
     ELSE ent \cup {Node(id, label, "Implicit", EmptyProps, doc)}

\* a query sent to the store and whether the store accepted it
Define(table, ok) == [op |-> "DEFINE", table |-> table, ok |-> ok]
Relate(table, ok) == [op |-> "RELATE", table |-> table, ok |-> ok]

\* DEFINE TABLE t SCHEMALESS PERMISSIONS FULL on the catalog
defineTable(catalog, table) == catalog \cup {table}

\* a RELATE that writes no second record for a from, table and to it has
relate_unique(st, ent, relType, fromId, toId, doc, fault) ==
  IF fault = "define"
  THEN [st EXCEPT !.ent = ent, !.ops = Append(@, Define(relType, FALSE))]
  ELSE IF fault = "relate"
  THEN [st EXCEPT !.ent = ent, !.tables = defineTable(@, relType),
          !.ops = @ \o <<Define(relType, TRUE), Relate(relType, FALSE)>>]
  ELSE IF \E i \in 1 .. Len(st.edges) :
            st.edges[i] = Edge(relType, fromId, toId, doc, NoType, 1)
  THEN [st EXCEPT !.ent = ent, !.tables = defineTable(@, relType),
          !.n = @ + 1,
          !.ops = @ \o <<Define(relType, TRUE), Relate(relType, TRUE)>>]
  ELSE [st EXCEPT !.ent = ent, !.tables = defineTable(@, relType),
          !.edges = Append(@, Edge(relType, fromId, toId, doc, NoType, 1)),
          !.n = @ + 1,
          !.ops = @ \o <<Define(relType, TRUE), Relate(relType, TRUE)>>]

\* DEFINE TABLE relType ...; RELATE fromId -> relType -> toId between the healed
\* nodes `ent`; relsInserted++ when both queries went through
relate(st, ent, relType, fromId, toId, doc, fault) ==
  IF fault = "define"
  THEN [st EXCEPT !.ent = ent, !.ops = Append(@, Define(relType, FALSE))]
  ELSE IF fault = "relate"
  THEN [st EXCEPT !.ent = ent, !.tables = defineTable(@, relType),
          !.ops = @ \o <<Define(relType, TRUE), Relate(relType, FALSE)>>]
  ELSE [st EXCEPT !.ent = ent, !.tables = defineTable(@, relType),
          !.edges = Append(@, Edge(relType, fromId, toId, doc, NoType, 1)),
          !.n = @ + 1,
          !.ops = @ \o <<Define(relType, TRUE), Relate(relType, TRUE)>>]

\* the loop body without its `continue`
insertRelationship_unguarded(st, rel, doc, fault) ==
  relate(st, healNode(healNode(st.ent, rel.from, doc, fault), rel.to, doc, fault),
         relTypeOf(rel.type), EntityId(rel.from), EntityId(rel.to), doc, fault)

\* B. Insert Relationships: one iteration of the loop over result.relationships.
\* st = [ent, tables, edges, n, ops]
insertRelationship(st, rel, doc, fault) ==
  IF rel.from = <<>> \/ rel.to = <<>> THEN st
  ELSE relate(st, healNode(healNode(st.ent, rel.from, doc, fault), rel.to, doc, fault),
              relTypeOf(rel.type), EntityId(rel.from), EntityId(rel.to), doc, fault)

RECURSIVE insertRelationships(_, _, _, _, _)
insertRelationships(st, rels, i, doc, fault) ==
  IF i > Len(rels) THEN st
  ELSE insertRelationships(insertRelationship(st, rels[i], doc, fault), rels, i + 1, doc, fault)

\* the chain step without its relsInserted++
insertChain_uncounted(st, last, cur, doc, fault) ==
  IF last # NoId /\ cur # NoId
  THEN IF fault = "next" THEN [st EXCEPT !.ops = Append(@, Define(NextTable, FALSE))]
       ELSE [st EXCEPT !.tables = defineTable(@, NextTable),
               !.edges = Append(@, Edge(NextTable, last, cur, doc, SequenceType, Absent)),
               !.ops = @ \o <<Define(NextTable, TRUE), Relate(NextTable, TRUE)>>]
  ELSE st

\* the chain step with the edge written from the current event back to the last
insertChain_reversed(st, last, cur, doc, fault) ==
  IF last # NoId /\ cur # NoId
  THEN IF fault = "next" THEN [st EXCEPT !.ops = Append(@, Define(NextTable, FALSE))]
       ELSE [st EXCEPT !.tables = defineTable(@, NextTable),
               !.edges = Append(@, Edge(NextTable, cur, last, doc, SequenceType, Absent)),
               !.n = @ + 1,
               !.ops = @ \o <<Define(NextTable, TRUE), Relate(NextTable, TRUE)>>]
  ELSE st

\* the chain step for every row with an event, with or without a last event
insertChain_unguarded(st, last, cur, doc, fault) ==
  IF cur # NoId
  THEN IF fault = "next" THEN [st EXCEPT !.ops = Append(@, Define(NextTable, FALSE))]
       ELSE [st EXCEPT !.tables = defineTable(@, NextTable),
               !.edges = Append(@, Edge(NextTable, last, cur, doc, SequenceType, Absent)),
               !.n = @ + 1,
               !.ops = @ \o <<Define(NextTable, TRUE), Relate(NextTable, TRUE)>>]
  ELSE st

\* the chain step that relates without defining the NEXT table first
insertChain_locked(st, last, cur, doc, fault) ==
  IF last # NoId /\ cur # NoId
  THEN IF fault = "next" THEN [st EXCEPT !.ops = Append(@, Relate(NextTable, FALSE))]
       ELSE [st EXCEPT !.tables = defineTable(@, NextTable),
               !.edges = Append(@, Edge(NextTable, last, cur, doc, SequenceType, Absent)),
               !.n = @ + 1,
               !.ops = Append(@, Relate(NextTable, TRUE))]
  ELSE st

\* C. Insert Timeline Chain.  st = [ent, tables, edges, n, ops]
insertChain(st, last, cur, doc, fault) ==
  IF last # NoId /\ cur # NoId
  THEN IF fault = "next" THEN [st EXCEPT !.ops = Append(@, Define(NextTable, FALSE))]
       ELSE [st EXCEPT !.tables = defineTable(@, NextTable),
               !.edges = Append(@, Edge(NextTable, last, cur, doc, SequenceType, Absent)),
               !.n = @ + 1,
               !.ops = @ \o <<Define(NextTable, TRUE), Relate(NextTable, TRUE)>>]
  ELSE st

\* the cursor update without its guard: an event-less row resets the cursor
nextCursor_reset(last, cur) == cur

\* if (currentEventId) lastEventId = currentEventId
nextCursor(last, cur) == IF cur # NoId THEN cur ELSE last

\* what a row leaves behind: a = the outcome of A, c = the outcome of B then C
rowOutcome(s, a, c) ==
  IF a.threw
  THEN [s EXCEPT !.ent = a.ent, !.entitiesInserted = a.n, !.threw = TRUE]
  ELSE [ent |-> c.ent, tables |-> c.tables, edges |-> c.edges,
        entitiesInserted |-> a.n, relsInserted |-> c.n,
        lastEventId |-> nextCursor(s.lastEventId, a.cur),
        threw |-> FALSE, ops |-> c.ops]

\* B and C after A ended as `a`
afterEntities(s, a, result, doc, fault) ==
  rowOutcome(s, a,
             insertChain(insertRelationships([ent |-> a.ent, tables |-> s.tables,
                                              edges |-> s.edges, n |-> s.relsInserted,
                                              ops |-> <<>>],
                                             result.relationships, 1, doc, fault),
                         s.lastEventId, a.cur, doc, fault))

\* the body of the `for (const row of rowsToProcess)` loop after the extraction
\* returned `result`; s = the store and the run's locals before the row
reconcileRow(s, result, doc, fault) ==
  afterEntities(s,
                insertEntities([ent |-> s.ent, cur |-> NoId, n |-> s.entitiesInserted,
                                threw |-> FALSE],
                               result.entities, 1, doc, fault),
                result, doc, fault)

(***************************************************************************)
(* Request bodies of the process route                                     *)
(***************************************************************************)
HeaderLine == <<"i", "d">>
DataLine == <<"1">>
BlankLine == <<" ">>
Lines == {HeaderLine, DataLine, BlankLine}

\* a non-empty textContent, split at '\n'.  A header line, when there is one,
\* is the first line of the text.
Texts ==
  {t \in UNION {[1 .. n -> Lines] : n \in 1 .. MaxLines} :
     \A i \in 2 .. Len(t) : t[i] # HeaderLine}

Rule(header, type, target) ==
  [header_column |-> header, relationship_type |-> type, target_entity |-> target]

\* approvedMapping: absent, or a list of rules
Mapping(present, rules) == [present |-> present, rules |-> rules]
NoMapping == Mapping(FALSE, <<>>)
IdRule == Rule(<<"i", "d">>, <<"h", "-", "x">>, <<"d">>)
IdRuleOther == Rule(<<"i", "d">>, <<"n">>, <<"e">>)
ARule == Rule(<<"a">>, <<"n">>, <<"e">>)
\* the rule for the one column of a file whose header row is a|id
PipeRule == Rule(<<"a", "|", "i", "d">>, <<"n">>, <<"e">>)
RunMappings == {NoMapping, Mapping(TRUE, <<>>), Mapping(TRUE, <<IdRule>>)}

\* approvedMapping[0]?.header_column, as includes() converts it to a string
firstHeaderColumn(m) ==
  IF Len(m.rules) > 0 THEN m.rules[1].header_column ELSE UndefinedStr

\* textContent.split('\n').filter(line => line.trim().length > 0)
nonBlankLines(text) == SelectSeq(text, LAMBDA line : Len(trim(line)) > 0)

BATCH_SIZE == 100

\* header removal without the slice
rowsToProcess_uncapped(text, m) ==
  LET lines == nonBlankLines(text)
  IN IF m.present /\ Len(lines) > 0 /\ includes(lines[1], firstHeaderColumn(m))
     THEN Tail(lines) ELSE lines

\* header removal and lines.slice(0, BATCH_SIZE)
rowsToProcess(text, m) ==
  LET lines == nonBlankLines(text)
      data == IF m.present /\ Len(lines) > 0 /\ includes(lines[1], firstHeaderColumn(m))
              THEN Tail(lines) ELSE lines
  IN SubSeq(data, 1, IF Len(data) < BATCH_SIZE THEN Len(data) ELSE BATCH_SIZE)

(***************************************************************************)
(* State                                                                   *)
(***************************************************************************)
VARIABLES
  entity,            \* the entity table: a set of node records
  edges,             \* the edge records of all relationship tables, in write order
  tables,            \* the table catalog (INFO FOR DB)
  document,          \* run -> its Document record
  pc,                \* run -> "idle", "rows", "done", "failed"
  rows,              \* run -> rowsToProcess
  lastEventId,       \* run -> the chain cursor
  entitiesInserted,  \* run -> counter
  relsInserted,      \* run -> counter
  response,          \* run -> the HTTP response
  hist,              \* run -> what happened at each row processed so far
  configs,           \* the data_source_config table, in insertion order
  saver,             \* saver -> its request and position
  lookup,            \* the last answer of the analyze route
  view,              \* the graph store of the UI after loadGraph
  relationshipDefs,  \* the relationship_def table, in insertion order
  learner,           \* learner -> its call of learnNewRelationship and position
  clock,             \* the time new Date() reads
  adapter,           \* the last call of the extraction adapter: its attempts and sleeps
  request,           \* run -> the body of its request, where the model keeps it
  normalized,        \* the last call of sanitizeId: its label and its key
  cy                 \* the GraphVisualization component: cyRef, pendingDataRef, the elements shown

vars == <<entity, edges, tables, document, pc, rows, lastEventId, entitiesInserted,
          relsInserted, response, hist, configs, saver, lookup, view,
          relationshipDefs, learner, clock, adapter, normalized, cy, request>>

ingestVars == <<entity, edges, tables, document, pc, rows, lastEventId, entitiesInserted,
                relsInserted, response, hist, adapter, request>>
memoryVars == <<configs, saver, lookup>>
learnVars == <<relationshipDefs, learner, clock>>
\* the state of the components beside ingestion, mapping memory and loadGraph
sideVars == <<learnVars, normalized, cy>>

T_entity == <<"e", "n", "t", "i", "t", "y">>
T_document == <<"d", "o", "c", "u", "m", "e", "n", "t">>
T_relationship == <<"r", "e", "l", "a", "t", "i", "o", "n", "s", "h", "i", "p">>
T_relationship_def == <<"r", "e", "l", "a", "t", "i", "o", "n", "s", "h", "i", "p", "_", "d", "e", "f">>
T_data_source_config ==
  <<"d", "a", "t", "a", "_", "s", "o", "u", "r", "c", "e", "_", "c", "o", "n", "f", "i", "g">>
T_user == <<"u", "s", "e", "r">>
T_session == <<"s", "e", "s", "s", "i", "o", "n">>

\* the tables SCHEMA_QUERIES defines
SchemaTables == {T_entity, T_relationship, T_document, T_relationship_def, T_data_source_config}

NoDocument == [exists |-> FALSE, entityCount |-> 0, relationshipCount |-> 0, updates |-> 0]
NoResponse == [status |-> 0, success |-> FALSE, entitiesInserted |-> 0, relsInserted |-> 0]
NoLookup == [asked |-> FALSE, headers |-> <<>>, source |-> "", proposals |-> <<>>]
NoView == [loaded |-> FALSE, filter |-> 0, error |-> FALSE, queryFailed |-> FALSE,
           entities |-> {}, relationships |-> <<>>, hiddenCount |-> 0, scanned |-> {},
           fetched |-> <<>>]
IdleSaver == [pc |-> "idle", mapping |-> NoMapping, fileName |-> "", signature |-> <<>>,
              save |-> FALSE]
IdleLearner == [pc |-> "idle", type |-> <<>>, description |-> "", failed |-> FALSE]
NoRequest == [present |-> FALSE, text |-> <<>>, mapping |-> NoMapping]
NoCall == [called |-> FALSE, failures |-> 0, threw |-> FALSE, calls |-> 0, delays |-> <<>>]
NotNormalized == [done |-> FALSE, label |-> <<>>, key |-> <<>>]
\* pendingDataRef.current = null; a Cytoscape instance without elements
NoData == [present |-> FALSE, entities |-> {}, relationships |-> <<>>]
NothingShown == [loaded |-> FALSE, nodes |-> {}, edges |-> <<>>]

\* the state before the first request, on a store with the given catalog
InitWith(catalog) ==
  /\ entity = {}
  /\ edges = <<>>
  /\ tables = catalog
  /\ document = [r \in Runs |-> NoDocument]
  /\ pc = [r \in Runs |-> "idle"]
  /\ rows = [r \in Runs |-> <<>>]
  /\ lastEventId = [r \in Runs |-> NoId]
  /\ entitiesInserted = [r \in Runs |-> 0]
  /\ relsInserted = [r \in Runs |-> 0]
  /\ response = [r \in Runs |-> NoResponse]
  /\ hist = [r \in Runs |-> <<>>]
  /\ configs = <<>>
  /\ saver = [s \in Savers |-> IdleSaver]
  /\ lookup = NoLookup
  /\ view = NoView
  /\ relationshipDefs = <<>>
  /\ learner = [l \in Learners |-> IdleLearner]
  /\ clock = 0
  /\ adapter = NoCall
  /\ request = [r \in Runs |-> NoRequest]
  /\ normalized = NotNormalized
  /\ cy = [ready |-> FALSE, retries |-> 0, pending |-> NoData, shown |-> NothingShown]

\* a store on which SCHEMA_QUERIES has been run
Init == InitWith(SchemaTables)

(***************************************************************************)
(* The process route (NEXT-chaining variant)                               *)
(***************************************************************************)
RECURSIVE SumLen(_, _)
SumLen(f, S) ==
  IF S = {} THEN 0
  ELSE LET x == CHOOSE y \in S : TRUE IN Len(f[x]) + SumLen(f, S \ {x})

\* the store operations a row attempts, by the kind of fault that can hit them
Attempts(fault, result, last) ==
  CASE fault = "none" -> TRUE
    [] fault = "entity" ->
         \E i \in 1 .. Len(result.entities) : result.entities[i].label # <<>>
    [] fault \in {"heal", "define", "relate"} ->
         \E i \in 1 .. Len(result.relationships) :
            result.relationships[i].from # <<>> /\ result.relationships[i].to # <<>>
    [] fault = "next" ->
         /\ last # NoId
         /\ \E i \in 1 .. Len(result.entities) :
               result.entities[i].label # <<>> /\ result.entities[i].type \in EventTypes

FaultyRows(h) == Cardinality({<<r, i>> \in Runs \X (1 .. MaxTotalRows) :
                                i <= Len(h[r]) /\ h[r][i].fault # "none"})

\* the rows of every request body, computed once
RowsOf == [text \in Texts, m \in RunMappings |-> rowsToProcess(text, m)]

\* POST up to the row loop: create the Document; rs = rowsToProcess
StartRows(r, rs) ==
  /\ pc[r] = "idle"
  /\ pc' = [pc EXCEPT ![r] = "rows"]
  /\ document' = [document EXCEPT ![r] = [NoDocument EXCEPT !.exists = TRUE]]
  /\ rows' = [rows EXCEPT ![r] = rs]
  /\ UNCHANGED <<entity, edges, tables, lastEventId, entitiesInserted, relsInserted,
                 response, hist, adapter>>
  /\ UNCHANGED <<memoryVars, view, sideVars>>

\* a request with the body {textContent: text, approvedMapping: m}
Start(r, text, m) ==
  /\ SumLen(rows, Runs) + Len(RowsOf[text, m]) <= MaxTotalRows
  /\ StartRows(r, RowsOf[text, m])
  /\ UNCHANGED request

\* the same request, with its body kept for the properties
StartRecorded(r, text, m) ==
  /\ StartRows(r, rowsToProcess(text, m))
  /\ request' = [request EXCEPT ![r] = [present |-> TRUE, text |-> text, mapping |-> m]]

\* a request that arrives when the earlier requests have been answered
StartRun(r) ==
  /\ \A q \in Runs : q < r => pc[q] \in {"done", "failed"}
  /\ \E text \in Texts, m \in RunMappings : Start(r, text, m)

\* a loop that takes the first row again at every iteration
rowIndex_stuck(h) == 1

\* for (const row of rowsToProcess): the row after the ones processed so far
rowIndex(h) == Len(h) + 1

\* the end of an iteration whose extraction ended as x and whose writes ended
\* as t: the 500 response of a throw, or the store and the locals after the row
RowEnd(r, failures, content, fault, x, t) ==
  /\ x.threw => (content = BadJson /\ fault = "none")
  /\ fault # "none" => FaultyRows(hist) < MaxFaultyRows
  /\ Attempts(fault, x.result, lastEventId[r])
  /\ hist' = [hist EXCEPT ![r] =
                Append(@, [index |-> rowIndex(hist[r]), row |-> rows[r][rowIndex(hist[r])],
                           threw |-> x.threw, parses |-> content.parses,
                           result |-> x.result, fault |-> fault,
                           ops |-> IF x.threw THEN <<>> ELSE t.ops])]
  /\ adapter' = [called |-> TRUE, failures |-> failures, threw |-> x.threw,
                 calls |-> x.calls, delays |-> x.delays]
  /\ IF x.threw
     THEN /\ pc' = [pc EXCEPT ![r] = "failed"]
          /\ response' = [response EXCEPT ![r] = [NoResponse EXCEPT !.status = 500]]
          /\ UNCHANGED <<entity, edges, tables, lastEventId, entitiesInserted,
                         relsInserted>>
     ELSE /\ entity' = t.ent
          /\ entitiesInserted' = [entitiesInserted EXCEPT ![r] = t.entitiesInserted]
          /\ IF t.threw
             THEN /\ pc' = [pc EXCEPT ![r] = "failed"]
                  /\ response' = [response EXCEPT ![r] =
                                    [NoResponse EXCEPT !.status = 500]]
                  /\ UNCHANGED <<edges, tables, lastEventId, relsInserted>>
             ELSE /\ edges' = t.edges
                  /\ tables' = t.tables
                  /\ relsInserted' = [relsInserted EXCEPT ![r] = t.relsInserted]
                  /\ lastEventId' = [lastEventId EXCEPT ![r] = t.lastEventId]
                  /\ UNCHANGED <<pc, response>>

\* a cursor kept in one place for all requests: every run reads the first run's
cursorOfRun_shared(cursors, r) == cursors[1]

\* let lastEventId: a local of the request, one per run
cursorOfRun(cursors, r) == cursors[r]

\* the writes A, B, C on the store as the row finds it, after the extraction
\* ended as x
RowWrites(r, failures, content, fault, x) ==
  RowEnd(r, failures, content, fault, x,
         reconcileRow([ent |-> entity, tables |-> tables, edges |-> edges,
                       entitiesInserted |-> entitiesInserted[r],
                       relsInserted |-> relsInserted[r],
                       lastEventId |-> cursorOfRun(lastEventId, r), threw |-> FALSE,
                       ops |-> <<>>],
                      x.result, r, fault))

\* one iteration of the row loop: the extraction call and the writes A, B, C,
\* when the LLM fails `failures` times before answering one of `contents` and
\* the store shows one of `faults` during the row
RowOf(r, failureCounts, contents, faults) ==
  /\ pc[r] = "rows"
  /\ Len(hist[r]) < Len(rows[r])
  /\ \E failures \in failureCounts, content \in contents, fault \in faults :
       RowWrites(r, failures, content, fault, callOpenAI(failures, content))
  /\ UNCHANGED <<document, rows, request>>
  /\ UNCHANGED <<memoryVars, view, sideVars>>

\* a row whose extraction may be answered with any of the contents
Row(r, failureCounts, faults) == RowOf(r, failureCounts, Contents, faults)

\* the final update with the two counts exchanged
FinishRun_swapped(r) ==
  /\ pc[r] = "rows"
  /\ Len(hist[r]) = Len(rows[r])
  /\ document' = [document EXCEPT ![r] = [@ EXCEPT !.entityCount = relsInserted[r],
                                                   !.relationshipCount = entitiesInserted[r],
                                                   !.updates = @ + 1]]
  /\ response' = [response EXCEPT ![r] = [status |-> 200, success |-> TRUE,
                                          entitiesInserted |-> entitiesInserted[r],
                                          relsInserted |-> relsInserted[r]]]
  /\ pc' = [pc EXCEPT ![r] = "done"]
  /\ UNCHANGED <<entity, edges, tables, rows, lastEventId, entitiesInserted, relsInserted, hist,
                 adapter, request>>
  /\ UNCHANGED <<memoryVars, view, sideVars>>

\* after the loop: graphOps.updateDocument and the success response
FinishRun(r) ==
  /\ pc[r] = "rows"
  /\ Len(hist[r]) = Len(rows[r])
  /\ document' = [document EXCEPT ![r] = [@ EXCEPT !.entityCount = entitiesInserted[r],
                                                   !.relationshipCount = relsInserted[r],
                                                   !.updates = @ + 1]]
  /\ response' = [response EXCEPT ![r] = [status |-> 200, success |-> TRUE,
                                          entitiesInserted |-> entitiesInserted[r],
                                          relsInserted |-> relsInserted[r]]]
  /\ pc' = [pc EXCEPT ![r] = "done"]
  /\ UNCHANGED <<entity, edges, tables, rows, lastEventId, entitiesInserted, relsInserted, hist,
                 adapter, request>>
  /\ UNCHANGED <<memoryVars, view, sideVars>>

\* a row while the LLM answers and the store accepts every write
ProcessRow(r) == Row(r, {0}, {"none"})

\* a row while the LLM may fail up to maxRetries times and the store may fail
ProcessRowFaulty(r) == Row(r, 0 .. maxRetries, Faults)

Next ==
  \E r \in Runs : StartRun(r) \/ ProcessRow(r) \/ FinishRun(r)

Spec == Init /\ [][Next]_vars

\* one run over an unreliable LLM and an unreliable store
FaultRun == 1

NextFault ==
  StartRun(FaultRun) \/ ProcessRowFaulty(FaultRun) \/ FinishRun(FaultRun)

SpecFault == Init /\ [][NextFault]_vars

\* maxDuration: the host ends the request between two rows; no code of the
\* route runs after that, and the client gets the host's 504
HostTimeout(r) ==
  /\ pc[r] = "rows"
  /\ pc' = [pc EXCEPT ![r] = "failed"]
  /\ response' = [response EXCEPT ![r] = [NoResponse EXCEPT !.status = 504]]
  /\ UNCHANGED <<entity, edges, tables, document, rows, lastEventId, entitiesInserted,
                 relsInserted, hist, adapter, request>>
  /\ UNCHANGED <<memoryVars, view, sideVars>>

\* the unreliable run under a time budget
NextAbort == NextFault \/ HostTimeout(FaultRun)

SpecAbort == Init /\ [][NextAbort]_vars

(***************************************************************************)
(* Mapping memory: the save of the process route, the lookup of analyze    *)
(***************************************************************************)
\* s < t in the order of Array.prototype.sort() (UTF-16 code units)
RECURSIVE strLess(_, _)
strLess(s, t) ==
  IF t = <<>> THEN FALSE
  ELSE IF s = <<>> THEN TRUE
  ELSE IF Head(s) = Head(t) THEN strLess(Tail(s), Tail(t))
  ELSE CharCode(Head(s)) < CharCode(Head(t))

RECURSIVE insertSorted(_, _)
insertSorted(sorted, x) ==
  IF sorted = <<>> THEN <<x>>
  ELSE IF strLess(x, Head(sorted)) THEN <<x>> \o sorted
  ELSE <<Head(sorted)>> \o insertSorted(Tail(sorted), x)

\* headers.sort()
RECURSIVE sortStrings(_)
sortStrings(q) ==
  IF q = <<>> THEN <<>> ELSE insertSorted(sortStrings(SubSeq(q, 1, Len(q) - 1)), q[Len(q)])

\* q.join("|")
RECURSIVE joinPipe(_)
joinPipe(q) ==
  IF q = <<>> THEN <<>>
  ELSE IF Len(q) = 1 THEN q[1]
  ELSE q[1] \o <<"|">> \o joinPipe(Tail(q))

\* approvedMapping.map(m => m.header_column)
headerColumns(m) == [i \in 1 .. Len(m.rules) |-> m.rules[i].header_column]

\* headers.sort().join("|")
signatureOf(headers) == joinPipe(sortStrings(headers))

\* firstLine.split(',')
RECURSIVE splitComma(_, _)
splitComma(s, cur) ==
  IF s = <<>> THEN <<cur>>
  ELSE IF Head(s) = "," THEN <<cur>> \o splitComma(Tail(s), <<>>)
  ELSE splitComma(Tail(s), Append(cur, Head(s)))

\* h.trim().replace(/['"]+/g, '')
cleanHeader(h) == SelectSeq(trim(h), LAMBDA c : c # "'" /\ c # "\"")

\* the headers the analyze route reads from the first line of a file
headersOfLine(line) ==
  LET parts == splitComma(line, <<>>)
  IN [i \in 1 .. Len(parts) |-> cleanHeader(parts[i])]

ConfigRow(sig, fileName, m) ==
  [signature |-> sig, last_file_name |-> fileName, approved_mapping |-> m.rules]

\* SELECT * FROM data_source_config WHERE signature = $sig
configsWith(cfgs, sig) == SelectSeq(cfgs, LAMBDA row : row.signature = sig)

\* the existence test that never finds a row
configExists_never(cfgs, sig) == FALSE

\* exists[0] of the save
configExists(cfgs, sig) == Len(configsWith(cfgs, sig)) > 0

\* the proposals the analyze route may answer from memory for a header row:
\* approved_mapping of a row the LIMIT 1 query returns
memoryAnswers(cfgs, headers) ==
  LET found == configsWith(cfgs, signatureOf(headers))
  IN {found[i].approved_mapping : i \in 1 .. Len(found)}

\* the bodies whose mapping the process route may be asked to remember
SaveMappings ==
  { NoMapping,
    Mapping(TRUE, <<>>),
    Mapping(TRUE, <<IdRule, ARule>>),
    Mapping(TRUE, <<ARule, IdRuleOther>>),
    Mapping(TRUE, <<IdRule>>),
    Mapping(TRUE, <<PipeRule>>) }
FileNames == {"f1", "f2"}

\* first lines of the files given to the analyze route
FirstLines ==
  { <<"i", "d", ",", "a">>, <<"a", ",", " ", "i", "d">>, <<"'", "i", "d", "'">>, <<"a">>,
    <<>> }

\* process route, step 3 up to the answer of the SELECT: a body with
\* saveToMemory and a mapping goes on to the insert when no row has its
\* signature, every other request is done with the memory
SaveCheck(s) ==
  /\ saver[s].pc = "idle"
  /\ \E m \in SaveMappings, f \in FileNames, saveToMemory \in BOOLEAN :
       LET sig == IF m.present THEN signatureOf(headerColumns(m)) ELSE <<>>
           req == [pc |-> "done", mapping |-> m, fileName |-> f, signature |-> sig,
                   save |-> saveToMemory /\ m.present]
       IN saver' = [saver EXCEPT ![s] =
                      IF saveToMemory /\ m.present /\ ~configExists(configs, sig)
                      THEN [req EXCEPT !.pc = "insert"] ELSE req]
  /\ UNCHANGED <<configs, lookup, ingestVars, view, sideVars>>

\* db.create(TABLES.DATA_SOURCE_CONFIG, {...})
SaveInsert(s) ==
  /\ saver[s].pc = "insert"
  /\ configs' = Append(configs, ConfigRow(saver[s].signature, saver[s].fileName,
                                          saver[s].mapping))
  /\ saver' = [saver EXCEPT ![s].pc = "done"]
  /\ UNCHANGED <<lookup, ingestVars, view, sideVars>>

\* analyze route: read the headers, answer from memory when a row matches
Lookup ==
  /\ \E line \in FirstLines :
       LET headers == headersOfLine(line)
       IN IF memoryAnswers(configs, headers) # {}
          THEN \E a \in memoryAnswers(configs, headers) :
                 lookup' = [asked |-> TRUE, headers |-> headers, source |-> "MEMORY",
                            proposals |-> a]
          ELSE lookup' = [asked |-> TRUE, headers |-> headers, source |-> "AI",
                          proposals |-> <<>>]
  /\ UNCHANGED <<configs, saver, ingestVars, view, sideVars>>

NextMemory ==
  (\E s \in Savers : SaveCheck(s) \/ SaveInsert(s)) \/ Lookup

SpecMemory == Init /\ [][NextMemory]_vars

(***************************************************************************)
(* Graph Reader: getAllEntities, getEntitiesByDocument, getAllRelationships *)
(* and the strict filter of loadGraph                                      *)
(***************************************************************************)
NoFilter == 0
Filters == {NoFilter} \cup Runs

\* the tables getAllRelationships never scans
exclude == {T_entity, T_document, T_relationship_def, T_data_source_config, T_user, T_session}

mapRecordToEntity(n) == [id |-> n.id, type |-> n.type, label |-> n.label]

\* the record ids the store gave the edges: table:key
RecordId(table, key) == <<table, key>>
withIds(recs) == [i \in 1 .. Len(recs) |-> [id |-> RecordId(recs[i].table, i)] @@ recs[i]]

\* r.id.split(':')[0]
tableOfId(id) == id[1]

\* a mapping that prefers the type property of the record to its table
mapRecordToRelationship_explicit(r) ==
  [id |-> r.id, from |-> r.in, to |-> r.out,
   type |-> IF r.type # NoType THEN r.type ELSE tableOfId(r.id), source |-> r.source]

\* type: r.id.split(':')[0], from: r.from || r.in, to: r.to || r.out
mapRecordToRelationship(r) ==
  [id |-> r.id, from |-> r.in, to |-> r.out, type |-> tableOfId(r.id), source |-> r.source]

\* SELECT * FROM entity; a failed query is caught and answered with []
getAllEntities(ent, fails) ==
  IF fails THEN {} ELSE {mapRecordToEntity(n) : n \in ent}

\* SELECT * FROM entity WHERE metadata.source = $id
getEntitiesByDocument(ent, id) ==
  {mapRecordToEntity(n) : n \in {m \in ent : m.source = id}}

\* a scan of the relationship table of the schema only
edgeTables_static(allTableNames) == allTableNames \cap {T_relationship}

\* allTableNames.filter(t => !exclude.includes(t))
edgeTables(allTableNames) == allTableNames \ exclude

\* a scan without the WHERE clause
scannedRecords_unfiltered(catalog, recs, documentId) ==
  SelectSeq(recs, LAMBDA e : e.table \in edgeTables(catalog))

\* the records of the scanned tables, in write order
scannedRecords(catalog, recs, documentId) ==
  SelectSeq(recs, LAMBDA e : /\ e.table \in edgeTables(catalog)
                             /\ (documentId # NoFilter => e.source = documentId))

getAllRelationships(catalog, recs, documentId, fails) ==
  IF fails \/ edgeTables(catalog) = {} THEN <<>>
  ELSE LET records == scannedRecords(catalog, withIds(recs), documentId)
           validEdges == SelectSeq(records, LAMBDA e : e.in # NoId /\ e.out # NoId)
       IN [i \in 1 .. Len(validEdges) |-> mapRecordToRelationship(validEdges[i])]

\* a filter that looks at the from end only
validRelationships_fromOnly(loadedEntities, loadedRelationships) ==
  LET validNodeIds == {e.id : e \in loadedEntities}
  IN SelectSeq(loadedRelationships, LAMBDA rel : rel.from \in validNodeIds)

\* 2. STRICT FILTERING: hasFrom && hasTo
validRelationships(loadedEntities, loadedRelationships) ==
  LET validNodeIds == {e.id : e \in loadedEntities}
  IN SelectSeq(loadedRelationships,
               LAMBDA rel : rel.from \in validNodeIds /\ rel.to \in validNodeIds)

\* loadGraph(documentId); entitiesFail and relsFail say which query fails.
\* Only getEntitiesByDocument lets its failure through to loadGraph's catch.
LoadGraph(documentId) ==
  /\ ~view.loaded
  /\ documentId # NoFilter => document[documentId].exists
  /\ \E entitiesFail \in BOOLEAN, relsFail \in BOOLEAN :
       IF documentId # NoFilter /\ entitiesFail
       THEN view' = [NoView EXCEPT !.loaded = TRUE, !.filter = documentId, !.error = TRUE,
                                   !.queryFailed = TRUE]
       ELSE LET loadedEntities ==
                  IF documentId # NoFilter THEN getEntitiesByDocument(entity, documentId)
                  ELSE getAllEntities(entity, entitiesFail)
                loadedRelationships == getAllRelationships(tables, edges, documentId, relsFail)
            IN view' = [loaded |-> TRUE, filter |-> documentId, error |-> FALSE,
                        queryFailed |-> entitiesFail \/ relsFail,
                        entities |-> loadedEntities,
                        relationships |->
                          validRelationships(loadedEntities, loadedRelationships),
                        hiddenCount |->
                          Len(loadedRelationships)
                            - Len(validRelationships(loadedEntities, loadedRelationships)),
                        scanned |-> IF relsFail THEN {} ELSE edgeTables(tables),
                        fetched |-> loadedRelationships]
  /\ UNCHANGED <<ingestVars, memoryVars, sideVars>>

\* a row while the store may refuse the self-healing creates
ProcessRowUnhealed(r) == Row(r, {0}, {"none", "heal"})

\* files of data lines only, sent without a mapping
PlainTexts == {text \in Texts : \A i \in 1 .. Len(text) : text[i] = DataLine}

StartRunPlain(r) ==
  /\ \A q \in Runs : q < r => pc[q] \in {"done", "failed"}
  /\ \E text \in PlainTexts : Start(r, text, NoMapping)

\* ingestion up to the moment the UI loads the graph
IngestBeforeLoad(r) ==
  /\ ~view.loaded
  /\ StartRunPlain(r) \/ ProcessRowUnhealed(r) \/ FinishRun(r)

NextRead ==
  (\E r \in Runs : IngestBeforeLoad(r)) \/ (\E f \in Filters : LoadGraph(f))

SpecRead == Init /\ [][NextRead]_vars

\* the catalog after SCHEMA_QUERIES, and the catalog of a store that only has
\* the tables the first writes of the routes made
Catalogs == {SchemaTables, {T_entity, T_document}}

ScanRun == 1

\* one run, then a load, on either store
NextScan ==
  IngestBeforeLoad(ScanRun) \/ (\E f \in {NoFilter, ScanRun} : LoadGraph(f))

SpecScan == (\E catalog \in Catalogs : InitWith(catalog)) /\ [][NextScan]_vars

(***************************************************************************)
(* Relationship vocabulary: learnNewRelationship                           *)
(***************************************************************************)
LearnTypes == {<<"N">>, <<"n">>}
Descriptions == {"d1", "d2"}

RelationshipDef(type, description, at) ==
  [type |-> type, description |-> description, learned_at |-> at]

\* SELECT * FROM relationship_def WHERE type = $type
defsWith(defs, type) == SelectSeq(defs, LAMBDA row : row.type = type)

\* a create that replaces the record of the type when there is one
createRelationshipDef_upsert(defs, rec) ==
  IF Len(defsWith(defs, rec.type)) > 0
  THEN [i \in 1 .. Len(defs) |-> IF defs[i].type = rec.type THEN rec ELSE defs[i]]
  ELSE Append(defs, rec)

\* db.create(TABLES.RELATIONSHIP_DEF, {...}) under idx_type ... UNIQUE: the
\* create of a second record of a type is refused
createRelationshipDef(defs, rec) ==
  IF Len(defsWith(defs, rec.type)) > 0 THEN defs ELSE Append(defs, rec)

\* learnNewRelationship up to the answer of the SELECT; a query that throws
\* is logged and the call returns
LearnCheck(l) ==
  /\ learner[l].pc = "idle"
  /\ \E type \in LearnTypes, description \in Descriptions, queryFails \in BOOLEAN :
       LET call == [pc |-> "done", type |-> type, description |-> description,
                    failed |-> queryFails]
       IN learner' = [learner EXCEPT ![l] =
                        IF ~queryFails /\ Len(defsWith(relationshipDefs, type)) = 0
                        THEN [call EXCEPT !.pc = "create"] ELSE call]
  /\ clock' = clock + 1
  /\ UNCHANGED <<relationshipDefs, ingestVars, memoryVars, view, normalized, cy>>

\* if (!exists[0]) db.create(...); a refused create is logged
LearnCreate(l) ==
  /\ learner[l].pc = "create"
  /\ LET rec == RelationshipDef(learner[l].type, learner[l].description, clock)
     IN /\ relationshipDefs' = createRelationshipDef(relationshipDefs, rec)
        /\ learner' = [learner EXCEPT ![l].pc = "done",
                                      ![l].failed = (relationshipDefs' = relationshipDefs)]
  /\ clock' = clock + 1
  /\ UNCHANGED <<ingestVars, memoryVars, view, normalized, cy>>

NextLearn == \E l \in Learners : LearnCheck(l) \/ LearnCreate(l)

SpecLearn == Init /\ [][NextLearn]_vars

(***************************************************************************)
(* The identifier normalizer on its own                                    *)
(***************************************************************************)
LabelChars == {"A", "a", "Z", "1", "_", "-", " "}

\* the labels of at most MaxLabelLen characters; <<>> is the falsy label
\* (null, undefined or "")
RECURSIVE LabelsOfLen(_)
LabelsOfLen(n) ==
  IF n = 0 THEN {<<>>}
  ELSE {Append(l, c) : l \in LabelsOfLen(n - 1), c \in LabelChars}

Labels == UNION {LabelsOfLen(n) : n \in 0 .. MaxLabelLen}

\* sanitizeId(label)
Normalize ==
  /\ ~normalized.done
  /\ \E label \in Labels :
       normalized' = [done |-> TRUE, label |-> label, key |-> sanitizeId(label)]
  /\ UNCHANGED <<ingestVars, memoryVars, view, learnVars, cy>>

NextNormalize == Normalize

SpecNormalize == Init /\ [][NextNormalize]_vars

(***************************************************************************)
(* GraphVisualization: initCytoscape and loadGraphData                     *)
(***************************************************************************)
GraphRel(from, to) == [from |-> from, to |-> to]

\* the (entities, relationships) pairs handed to loadGraphData
GraphData ==
  [present : {TRUE},
   entities : SUBSET {"a", "b"},
   relationships : {<<>>, <<GraphRel("a", "b")>>, <<GraphRel("b", "a")>>,
                    <<GraphRel("a", "b"), GraphRel("b", "b")>>}]

\* nodes and validEdges of loadGraphData: edges to missing nodes are skipped
elementsOf(d) ==
  [loaded |-> TRUE,
   nodes |-> d.entities,
   edges |-> SelectSeq(d.relationships,
                       LAMBDA rel : rel.from \in d.entities /\ rel.to \in d.entities)]

\* the end of an initCytoscape that loads the pending data and clears the slot
loadPending_replayed(c) ==
  IF c.pending.present
  THEN [c EXCEPT !.shown = elementsOf(c.pending), !.pending = NoData]
  ELSE c

\* "Load pending data": if (pendingDataRef.current) { } has an empty body
loadPending(c) == c

\* initCytoscape finds a container without dimensions and schedules itself again
InitRetry ==
  /\ ~cy.ready
  /\ cy.retries < MaxInitRetries
  /\ cy' = [cy EXCEPT !.retries = @ + 1]
  /\ UNCHANGED <<ingestVars, memoryVars, view, learnVars, normalized>>

\* initCytoscape creates the instance
InitCytoscape ==
  /\ ~cy.ready
  /\ cy' = loadPending([cy EXCEPT !.ready = TRUE, !.shown = NothingShown])
  /\ UNCHANGED <<ingestVars, memoryVars, view, learnVars, normalized>>

\* loadGraphData(entities, relationships)
LoadGraphData(d) ==
  /\ cy' = IF ~cy.ready THEN [cy EXCEPT !.pending = d]
           ELSE [cy EXCEPT !.shown = elementsOf(d)]
  /\ UNCHANGED <<ingestVars, memoryVars, view, learnVars, normalized>>

\* the cleanup of the effect, before the effect runs again: destroy, cyRef = null
Cleanup ==
  /\ cy.ready
  /\ cy' = [cy EXCEPT !.ready = FALSE, !.retries = 0, !.shown = NothingShown]
  /\ UNCHANGED <<ingestVars, memoryVars, view, learnVars, normalized>>

NextCy ==
  InitRetry \/ InitCytoscape \/ (\E d \in GraphData : LoadGraphData(d)) \/ Cleanup

\* the timers of initCytoscape fire, and the container gets its size
SpecCy == Init /\ [][NextCy]_vars /\ WF_vars(InitCytoscape)

(***************************************************************************)
(* Concurrent requests to the process route                                *)
(***************************************************************************)
\* a request that arrives while other requests are being served
StartRunConcurrent(r) == \E text \in PlainTexts : Start(r, text, NoMapping)

\* the rows of the runs interleave: the store is shared, the locals are not
NextConcurrent ==
  \E r \in Runs : StartRunConcurrent(r) \/ ProcessRow(r) \/ FinishRun(r)

SpecConcurrent == Init /\ [][NextConcurrent]_vars

(***************************************************************************)
(* The split of textContent into rows: header removal                      *)
(***************************************************************************)
\* a line with a cell that reads undefined
UndefinedLine == <<"1", ",">> \o UndefinedStr

\* the texts of at most MaxLines lines, header lines and blank lines anywhere
SplitTexts ==
  UNION {[1 .. n -> Lines \cup {UndefinedLine}] : n \in 1 .. MaxLines}

SplitRun == 1

StartRunSplit ==
  \E text \in SplitTexts, m \in RunMappings : StartRecorded(SplitRun, text, m)

\* a row whose extraction is empty or one event
ProcessRowPlain(r) ==
  RowOf(r, {0}, {Parsable(EmptyResult), Parsable(Result(<<EvLogin>>, <<>>))}, {"none"})

NextSplit == StartRunSplit \/ ProcessRowPlain(SplitRun) \/ FinishRun(SplitRun)

SpecSplit == Init /\ [][NextSplit]_vars

(***************************************************************************)
(* Requests around the batch cap                                           *)
(***************************************************************************)
\* the line number n as a data line, in digits 0 to 2
RECURSIVE lineNumber(_)
lineNumber(n) ==
  IF n < 3 THEN <<Ascii[CharCode("0") + n]>>
  ELSE Append(lineNumber(n \div 3), Ascii[CharCode("0") + (n % 3)])

\* texts of BATCH_SIZE - 1 to BATCH_SIZE + MaxExcessRows lines, all different,
\* with a header line first or without one
BatchTexts ==
  {[i \in 1 .. n |-> IF i = 1 /\ header THEN HeaderLine ELSE lineNumber(i)] :
     n \in (BATCH_SIZE - 1) .. (BATCH_SIZE + MaxExcessRows), header \in BOOLEAN}

BatchRun == 1

StartRunBatch ==
  \E text \in BatchTexts : StartRecorded(BatchRun, text, Mapping(TRUE, <<IdRule>>))

\* a row extracted as one event
ProcessRowEvent(r) == RowOf(r, {0}, {Parsable(Result(<<EvLogin>>, <<>>))}, {"none"})

NextBatch == StartRunBatch \/ ProcessRowEvent(BatchRun) \/ FinishRun(BatchRun)

SpecBatch == Init /\ [][NextBatch]_vars

(***************************************************************************)
(* Vocabulary of the properties                                            *)
(***************************************************************************)
Last(q) == q[Len(q)]

\* the labelled event-like entities of an extraction result, in order
EventEntities(result) ==
  SelectSeq(result.entities, LAMBDA e : e.label # <<>> /\ e.type \in EventTypes)

\* the valid relationships of an extraction result
ValidRels(result) ==
  SelectSeq(result.relationships, LAMBDA x : x.from # <<>> /\ x.to # <<>>)

\* a row that went through all of A, B, C
Completed(h) == ~h.threw /\ h.fault # "entity"

\* the rows of a run's history that produced an event-like entity
EventRows(h) == SelectSeq(h, LAMBDA x : Len(EventEntities(x.result)) > 0)

\* every processed row was written in full and produced at most one event
SimpleRun(h) ==
  \A i \in 1 .. Len(h) :
    /\ ~h[i].threw
    /\ h[i].fault = "none"
    /\ Len(EventEntities(h[i].result)) <= 1

\* the event ids of the event rows, in row order
EventIds(h) ==
  LET er == EventRows(h)
  IN [i \in 1 .. Len(er) |-> EntityId(EventEntities(er[i].result)[1].label)]

\* the NEXT edges a run wrote, as <<from, to>>, in write order
NextPairs(r) ==
  LET ne == SelectSeq(edges, LAMBDA e : e.table = NextTable /\ e.source = r)
  IN [i \in 1 .. Len(ne) |-> <<ne[i].in, ne[i].out>>]

ConsecutivePairs(q) == [i \in 1 .. Len(q) - 1 |-> <<q[i], q[i + 1]>>]

EdgesOf(r) == SelectSeq(edges, LAMBDA e : e.source = r)

\* C3: in a run whose rows each produce at most one event-like entity, the
\* NEXT edges written are exactly the links between the events of successive
\* event rows, in row order: for events E1, E2, E3 of three rows the edges
\* are E1->E2 and E2->E3 and there is no edge E1->E3.
C3_NextChainOrdering ==
  \A r \in Runs :
    SimpleRun(hist[r]) => NextPairs(r) = ConsecutivePairs(EventIds(hist[r]))

C3_Witness ==
  \E r \in Runs :
    /\ Len(hist[r]) = 3
    /\ SimpleRun(hist[r])
    /\ Len(EventIds(hist[r])) = 3
    /\ Cardinality({EventIds(hist[r])[i] : i \in 1 .. 3}) = 3
    /\ NextPairs(r) = <<<<EventIds(hist[r])[1], EventIds(hist[r])[2]>>,
                        <<EventIds(hist[r])[2], EventIds(hist[r])[3]>>>>
    /\ ~\E i \in 1 .. Len(edges) :
          /\ edges[i].in = EventIds(hist[r])[1]
          /\ edges[i].out = EventIds(hist[r])[3]

\* C4: a row without an event-like entity leaves the cursor where it was: the
\* cursor is the event of the latest event row, however many event-less rows
\* followed it, and two event rows separated only by event-less rows are
\* linked by a NEXT edge.
C4_GapSkipping ==
  \A r \in Runs :
    SimpleRun(hist[r]) =>
      /\ lastEventId[r] = IF Len(EventIds(hist[r])) = 0 THEN NoId ELSE Last(EventIds(hist[r]))
      /\ \A i, j \in 1 .. Len(hist[r]) :
           ( /\ i < j
             /\ Len(EventEntities(hist[r][i].result)) = 1
             /\ Len(EventEntities(hist[r][j].result)) = 1
             /\ \A k \in (i + 1) .. (j - 1) : Len(EventEntities(hist[r][k].result)) = 0 )
           => \E e \in 1 .. Len(edges) :
                /\ edges[e].table = NextTable
                /\ edges[e].source = r
                /\ edges[e].in = EntityId(EventEntities(hist[r][i].result)[1].label)
                /\ edges[e].out = EntityId(EventEntities(hist[r][j].result)[1].label)

C4_Witness ==
  \E r \in Runs :
    /\ Len(hist[r]) = 3
    /\ SimpleRun(hist[r])
    /\ Len(EventEntities(hist[r][1].result)) = 1
    /\ Len(EventEntities(hist[r][2].result)) = 0
    /\ Len(EventEntities(hist[r][3].result)) = 1
    /\ NextPairs(r) = <<<<EntityId(EventEntities(hist[r][1].result)[1].label),
                          EntityId(EventEntities(hist[r][3].result)[1].label)>>>>

\* C7: when the extraction of a row throws (the LLM call failing after its
\* retries), the run is not aborted by it: it goes on to the later rows and
\* answers success: true.
C7_ExtractionFaultIsolation ==
  \A r \in Runs :
    (Len(hist[r]) > 0 /\ Last(hist[r]).threw) => pc[r] # "failed"

\* C8: a single entity or edge insert that fails at the store never aborts
\* the run: the run goes on and ends with success: true.
C8_WriteFaultIsolation ==
  \A r \in Runs :
    (Len(hist[r]) > 0 /\ ~Last(hist[r]).threw /\ Last(hist[r]).fault # "none")
      => pc[r] # "failed"

\* the nodes self-healing created for a run
PlaceholdersOf(r) == {n \in entity : n.type = "Implicit" /\ n.source = r}

\* C9 as stated: the relationships counter counts the written edges (extracted
\* and NEXT) and the self-healed placeholder creations.
C9_CounterCountsPlaceholders ==
  \A r \in Runs :
    relsInserted[r] = Len(EdgesOf(r)) + Cardinality(PlaceholdersOf(r))

\* C9 amended: the relationships counter of a run is the number of edges the
\* run wrote, extracted edges and NEXT edges alike; placeholder creations and
\* failed writes are not counted, and the response reports that counter.
C9_CounterCountsEdges ==
  \A r \in Runs :
    /\ relsInserted[r] = Len(EdgesOf(r))
    /\ pc[r] = "done" => response[r].relsInserted = Len(EdgesOf(r))

C9_Witness ==
  \E r \in Runs :
    /\ pc[r] = "done"
    /\ Cardinality(PlaceholdersOf(r)) > 0
    /\ \E i \in 1 .. Len(edges) : edges[i].table = NextTable /\ edges[i].source = r
    /\ \E i \in 1 .. Len(edges) : edges[i].table # NextTable /\ edges[i].source = r
    /\ \E i \in 1 .. Len(hist[r]) : hist[r][i].fault = "relate"
    /\ response[r].relsInserted = Len(EdgesOf(r))

\* a row extracted as exactly one event entity and nothing else
SingleEventRow(h) ==
  /\ Len(h.result.entities) = 1
  /\ Len(EventEntities(h.result)) = 1
  /\ Len(h.result.relationships) = 0

\* a header line that was kept as a row and yielded no assertions
SilentHeaderRow(r, i) ==
  /\ i = 1
  /\ rows[r][1] = HeaderLine
  /\ hist[r][1].result = EmptyResult

\* the scenario of C10: every row one event entity, but for a silent header row
EventScenario(r) ==
  /\ Len(hist[r]) = Len(rows[r])
  /\ \A i \in 1 .. Len(hist[r]) :
       /\ ~hist[r][i].threw
       /\ hist[r][i].fault = "none"
       /\ SingleEventRow(hist[r][i]) \/ SilentHeaderRow(r, i)

\* C10: a run whose n >= 1 data rows are each extracted as one event entity
\* and nothing else (a header row kept in the input yielding nothing) answers
\* entitiesInserted = n and relsInserted = n - 1, wrote exactly the NEXT edges
\* between the events of successive rows, and its Document stays at zero
\* counts until the single update at the end sets entityCount = n and
\* relationshipCount = n - 1.
C10_EventScenarioCounts ==
  \A r \in Runs :
    (EventScenario(r) /\ Len(EventRows(hist[r])) >= 1) =>
      LET n == Len(EventRows(hist[r]))
      IN /\ entitiesInserted[r] = n
         /\ relsInserted[r] = n - 1
         /\ EdgesOf(r) = SelectSeq(edges, LAMBDA e : e.table = NextTable /\ e.source = r)
         /\ NextPairs(r) = ConsecutivePairs(EventIds(hist[r]))
         /\ pc[r] = "rows" =>
              document[r] = [exists |-> TRUE, entityCount |-> 0,
                             relationshipCount |-> 0, updates |-> 0]
         /\ pc[r] = "done" =>
              /\ response[r] = [status |-> 200, success |-> TRUE,
                                entitiesInserted |-> n, relsInserted |-> n - 1]
              /\ document[r] = [exists |-> TRUE, entityCount |-> n,
                                relationshipCount |-> n - 1, updates |-> 1]

\* the scenario of the spec: header line kept (empty mapping), two event rows
C10_Witness ==
  \E r \in Runs :
    /\ pc[r] = "done"
    /\ EventScenario(r)
    /\ Len(rows[r]) = 3
    /\ SilentHeaderRow(r, 1)
    /\ Len(EventRows(hist[r])) = 2
    /\ hist[r][2].result.entities[1].type = "Event"
    /\ hist[r][3].result.entities[1].type = "Event"
    /\ hist[r][2].result.entities[1].label # hist[r][3].result.entities[1].label
    /\ response[r].entitiesInserted = 2
    /\ response[r].relsInserted = 1
    /\ document[r].entityCount = 2
    /\ document[r].relationshipCount = 1

\* run r has just processed a row
RowStep(r) == Len(hist'[r]) = Len(hist[r]) + 1

\* the entities of a result that are written to node id, in order
UpsertsOf(result, id) ==
  SelectSeq(result.entities, LAMBDA e : e.label # <<>> /\ EntityId(e.label) = id)

WrittenProps(e) == IF e.hasProps THEN e.properties ELSE EmptyProps

\* the value of key k after the writes ups on top of old: that of the last
\* write that carries k, else the old one
PropAfter(old, ups, k) ==
  LET writers == {i \in 1 .. Len(ups) : WrittenProps(ups[i])[k] # Absent}
  IN IF writers = {} THEN old[k]
     ELSE WrittenProps(ups[CHOOSE i \in writers : \A j \in writers : j <= i])[k]

\* C1: entities whose labels normalize to the same key are written to one
\* node.  The first write fixes the node's label, type and metadata.source;
\* every later write for that key, in the same row, a later row or a later
\* run, leaves them alone and merges its properties into the node's.
C1_IdempotentUpsert ==
  [][\A r \in Runs :
       (RowStep(r) /\ Completed(Last(hist'[r]))) =>
         \A i \in 1 .. Len(Last(hist'[r]).result.entities) :
           LET res == Last(hist'[r]).result
               e == res.entities[i]
               id == EntityId(e.label)
               ups == UpsertsOf(res, id)
               after == {n \in entity' : n.id = id}
           IN e.label # <<>> =>
                /\ Cardinality(after) = 1
                /\ \A n \in after :
                     IF HasNode(entity, id)
                     THEN /\ n.label = NodeOf(entity, id).label
                          /\ n.type = NodeOf(entity, id).type
                          /\ n.source = NodeOf(entity, id).source
                          /\ \A k \in PropKeys :
                               n.properties[k] = PropAfter(NodeOf(entity, id).properties, ups, k)
                     ELSE /\ n.label = ups[1].label
                          /\ n.type = (IF ups[1].type = "" THEN "Concept" ELSE ups[1].type)
                          /\ n.source = r
                          /\ \A k \in PropKeys :
                               n.properties[k] = PropAfter(EmptyProps, ups, k)
    ]_vars

\* label "a" (Person, run 1) then label "A" (Event, run 2): one node, first
\* write's label, type and source, properties of both
C1_Witness ==
  /\ Len(hist[2]) > 0
  /\ Last(hist[2]).result.entities = <<EvLogin>>
  /\ \E i \in 1 .. Len(hist[1]) : hist[1][i].result.entities = <<PersonA>>
  /\ {n \in entity : n.id = <<"entity", <<"a">>>>}
       = {Node(<<"entity", <<"a">>>>, <<"a">>, "Person", Props(1, 1), 1)}

\* C2: after a row is written (no store failure in its entity, placeholder,
\* DEFINE or RELATE writes), every relationship of its extraction result with
\* non-empty from and to has both endpoint nodes in the store, an endpoint
\* that was neither stored before nor asserted as an entity of the row being
\* a node of type "Implicit" of this run, and has a new edge from -> to in
\* the (defined) table of its normalized type.
C2_SelfHealingCompleteness ==
  [][\A r \in Runs :
       (RowStep(r) /\ ~Last(hist'[r]).threw /\ Last(hist'[r]).fault \in {"none", "next"}) =>
         LET rels == ValidRels(Last(hist'[r]).result)
         IN \A i \in 1 .. Len(rels) :
              LET f == EntityId(rels[i].from)
                  t == EntityId(rels[i].to)
              IN /\ HasNode(entity', f)
                 /\ HasNode(entity', t)
                 /\ \A x \in {f, t} :
                      (~HasNode(entity, x) /\ UpsertsOf(Last(hist'[r]).result, x) = <<>>) =>
                        \A n \in entity' :
                          n.id = x => (n.type = "Implicit" /\ n.source = r
                                        /\ EntityId(n.label) = x)
                 /\ relTypeOf(rels[i].type) \in tables'
                 /\ \E j \in (Len(edges) + 1) .. Len(edges') :
                      /\ edges'[j].table = relTypeOf(rels[i].type)
                      /\ edges'[j].in = f
                      /\ edges'[j].out = t
                      /\ edges'[j].source = r
    ]_vars

\* {from: "D", to: "e ", type: "h_x"} on an empty store
C2_Witness ==
  \E r \in Runs :
    /\ Len(hist[r]) = 1
    /\ hist[r][1].result.relationships = <<RelNoFrom, RelDtoE>>
    /\ hist[r][1].fault = "none"
    /\ Node(<<"entity", <<"d">>>>, <<"D">>, "Implicit", EmptyProps, r) \in entity
    /\ Node(<<"entity", <<"e">>>>, <<"e", " ">>, "Implicit", EmptyProps, r) \in entity
    /\ edges = <<Edge(<<"H", "_", "X">>, <<"entity", <<"d">>>>, <<"entity", <<"e">>>>, r, NoType, 1)>>

\* C6: once a mapping is stored for a signature (and no save that found the
\* signature absent is still about to insert), no step changes the rows of
\* that signature: a later save of another mapping or file name for it is a
\* no-op, and lookup on those headers keeps answering the stored mapping.
C6_FirstWriteWins ==
  [][\A i \in 1 .. Len(configs) :
       LET sig == configs[i].signature
           headers == [k \in 1 .. Len(configs[i].approved_mapping) |->
                         configs[i].approved_mapping[k].header_column]
       IN (\A s \in Savers : ~(saver[s].pc = "insert" /\ saver[s].signature = sig)) =>
            /\ configsWith(configs', sig) = configsWith(configs, sig)
            /\ memoryAnswers(configs', headers) = memoryAnswers(configs, headers)
            /\ \A s \in Savers :
                 (saver[s].pc = "idle" /\ saver'[s].pc # "idle" /\ saver'[s].signature = sig)
                   => saver'[s].pc = "done"
    ]_vars

\* M1 = [id, a] stored from f1; a finished save of M2 = [a, id'] from f2 for
\* the same signature left it alone, and lookup answered M1
C6_Witness ==
  /\ configs = <<ConfigRow(<<"a", "|", "i", "d">>, "f1", Mapping(TRUE, <<IdRule, ARule>>))>>
  /\ \E s \in Savers :
       /\ saver[s].pc = "done"
       /\ saver[s].save
       /\ saver[s].mapping = Mapping(TRUE, <<ARule, IdRuleOther>>)
       /\ saver[s].fileName = "f2"
  /\ lookup.source = "MEMORY"
  /\ lookup.proposals = <<IdRule, ARule>>

\* C5: whatever the ingestion runs left in the store, every relationship that
\* loadGraph puts in the UI store, with or without a document filter, has its
\* from and its to among the ids of the entities of the same load; an edge
\* with a missing endpoint is hidden and counted, and the load reports an
\* error only when its entity query failed.
C5_NoDanglingEdges ==
  view.loaded =>
    /\ \A i \in 1 .. Len(view.relationships) :
         /\ view.relationships[i].from \in {e.id : e \in view.entities}
         /\ view.relationships[i].to \in {e.id : e \in view.entities}
    /\ view.error => view.queryFailed

\* a load that returned a relationship and hid another one
C5_Witness ==
  /\ view.loaded
  /\ ~view.error
  /\ ~view.queryFailed
  /\ Len(view.relationships) > 0
  /\ view.hiddenCount > 0
  /\ \E i \in 1 .. Len(edges) :
       /\ view.filter # NoFilter => edges[i].source = view.filter
       /\ ~(edges[i].in \in {e.id : e \in view.entities}
            /\ edges[i].out \in {e.id : e \in view.entities})

\* the number of times x occurs in q
Occurrences(q, x) == Cardinality({i \in 1 .. Len(q) : q[i] = x})

\* h1 is a permutation of h2
SameHeaders(h1, h2) ==
  /\ Len(h1) = Len(h2)
  /\ \A i \in 1 .. Len(h1) : Occurrences(h1, h1[i]) = Occurrences(h2, h1[i])

\* the rows saved for a file whose header row is a permutation of headers
SavedFor(headers) ==
  {i \in 1 .. Len(configs) :
     SameHeaders([k \in 1 .. Len(configs[i].approved_mapping) |->
                    configs[i].approved_mapping[k].header_column], headers)}

\* C11: every answer of the analyze route agrees with the saves: it is a
\* mapping saved for a permutation of the asked header row when there is one,
\* and absent (source "AI") when the saved rows are all for other header sets.
C11_SignatureAgreement ==
  [][lookup' # lookup =>
       IF SavedFor(lookup'.headers) # {}
       THEN /\ lookup'.source = "MEMORY"
            /\ \E i \in SavedFor(lookup'.headers) :
                 lookup'.proposals = configs[i].approved_mapping
       ELSE lookup'.source = "AI"
    ]_vars

\* C12: whatever the interleaving of the saves, no two rows of
\* data_source_config have the same signature.
C12_SignatureUnique ==
  \A i, j \in 1 .. Len(configs) : configs[i].signature = configs[j].signature => i = j

C14_ParseFailureIsEmptyRow ==
  [][\A r \in Runs :
       (RowStep(r) /\ ~Last(hist'[r]).parses /\ ~Last(hist'[r]).threw) =>
         /\ Last(hist'[r]).result = EmptyResult
         /\ adapter'.calls = adapter'.failures + 1
         /\ entity' = entity /\ edges' = edges /\ tables' = tables
         /\ entitiesInserted' = entitiesInserted /\ relsInserted' = relsInserted
         /\ lastEventId' = lastEventId
         /\ pc'[r] = "rows" /\ response' = response
    ]_vars

\* a run answered with success whose second row did not parse, after a first
\* row that wrote an event and before a third row chained to the first
C14_Witness ==
  /\ pc[FaultRun] = "done"
  /\ response[FaultRun].success
  /\ Len(hist[FaultRun]) = 3
  /\ ~hist[FaultRun][2].parses /\ ~hist[FaultRun][2].threw
  /\ response[FaultRun].entitiesInserted = 2
  /\ response[FaultRun].relsInserted = 1

\* the sleeps of a call that made n attempts
DelaysOf(n) == [k \in 1 .. n - 1 |-> baseDelay * 2 ^ (k - 1)]

\* C15: an extract call makes at most 3 attempts: it returns at the first
\* attempt that succeeds, sleeps baseDelay * 2^(k-1) after failed attempt
\* k < 3, and throws after the third failed attempt without a fourth.
C15_BoundedRetries ==
  adapter.called =>
    /\ adapter.calls <= 3
    /\ adapter.calls = IF adapter.failures < 3 THEN adapter.failures + 1 ELSE 3
    /\ adapter.threw = (adapter.failures >= 3)
    /\ adapter.delays = DelaysOf(adapter.calls)

\* a call that answered at its third attempt after sleeping 1000 and 2000
C15_Witness ==
  /\ adapter.called
  /\ ~adapter.threw
  /\ adapter.calls = 3
  /\ adapter.delays = <<1000, 2000>>

\* the stored record of a relationship that loadGraph returned
RecordOf(rel) == edges[rel.id[2]]

\* C17 as claimed: a returned relationship has the type property of its
\* record when the record carries one, and the table of its id otherwise.
C17_ExplicitTypeFirst ==
  view.loaded =>
    \A i \in 1 .. Len(view.relationships) :
      view.relationships[i].type =
        IF RecordOf(view.relationships[i]).type # NoType
        THEN RecordOf(view.relationships[i]).type
        ELSE RecordOf(view.relationships[i]).table

\* C17: a returned relationship always has the table-name part of its record
\* id as its type, whether or not the record carries a type property: a chain
\* edge stored with type 'Sequence' is returned with type NEXT.
C17_TableNameIsType ==
  view.loaded =>
    \A i \in 1 .. Len(view.relationships) :
      /\ view.relationships[i].type = RecordOf(view.relationships[i]).table
      /\ view.relationships[i].from = RecordOf(view.relationships[i]).in
      /\ view.relationships[i].to = RecordOf(view.relationships[i]).out

\* a load that returned a chain edge stored with type 'Sequence' as NEXT
C17_Witness ==
  /\ view.loaded
  /\ \E i \in 1 .. Len(view.relationships) :
       /\ RecordOf(view.relationships[i]).type = SequenceType
       /\ view.relationships[i].type = NextTable

\* the characters a key may be made of
IsKeyChar(c) == IsLower(c) \/ IsDigit(c) \/ c = "_"

\* C16 as claimed: the key is the label without its characters outside
\* [A-Za-z0-9_], in lower case, and "unknown" for the empty label.
C16_StripsAndLowercases ==
  normalized.done =>
    normalized.key = IF normalized.label = <<>> THEN UnknownKey
                     ELSE lowerStr(SelectSeq(normalized.label, IsWordChar))

\* C16: the key is "unknown" for the empty label; otherwise it has one
\* character for each character of the trimmed label: the lower-case letter,
\* the digit or the underscore itself, and "_" in place of any other
\* character.  It is made of [a-z0-9_] only and does not depend on letter case.
C16_ReplacesAndLowercases ==
  normalized.done =>
    LET t == trim(normalized.label)
        key == normalized.key
    IN /\ normalized.label = <<>> => key = UnknownKey
       /\ normalized.label # <<>> =>
            /\ Len(key) = Len(t)
            /\ \A i \in 1 .. Len(t) :
                 key[i] = IF IsUpper(t[i]) THEN toLowerCase(t[i])
                          ELSE IF IsLower(t[i]) \/ IsDigit(t[i]) \/ t[i] = "_" THEN t[i]
                          ELSE "_"
       /\ \A i \in 1 .. Len(key) : IsKeyChar(key[i])
       /\ sanitizeId(upperStr(normalized.label)) = key
       /\ sanitizeId(lowerStr(normalized.label)) = key

\* the label "A-1" got the key a_1
C16_Witness ==
  /\ normalized.done
  /\ normalized.label = <<"A", "-", "1">>
  /\ normalized.key = <<"a", "_", "1">>

\* C18: data handed to loadGraphData before the instance exists is kept as
\* pending and, unless a later call before initialization replaces it, is what
\* the graph shows once initialization completes, with the pending slot cleared.
C18_PendingIsLoaded ==
  \A d \in GraphData :
    (~cy.ready /\ cy.pending = d) ~>
      \/ cy.ready /\ cy.shown = elementsOf(d) /\ cy.pending = NoData
      \/ ~cy.ready /\ cy.pending.present /\ cy.pending # d

\* the queries of the rows of h, in the order they were sent
RECURSIVE OpsOf(_)
OpsOf(h) == IF h = <<>> THEN <<>> ELSE OpsOf(SubSeq(h, 1, Len(h) - 1)) \o h[Len(h)].ops

\* the tables of the edges a document's run wrote, in write order
EdgeTablesOf(recs, r) ==
  LET mine == SelectSeq(recs, LAMBDA e : e.source = r)
  IN [i \in 1 .. Len(mine) |-> mine[i].table]

\* the tables of the RELATE queries the store accepted
RelatedTablesOf(ops) ==
  LET done == SelectSeq(ops, LAMBDA o : o.op = "RELATE" /\ o.ok)
  IN [i \in 1 .. Len(done) |-> done[i].table]

\* C19: in every run, each RELATE into a table T (NEXT included) comes after a
\* DEFINE TABLE T ... of the same run, the edges of the run are the accepted
\* RELATEs, and a DEFINE of a table that is already in the catalog leaves the
\* catalog and the stored edges as they were.
C19_UnlockPrecedesWrite ==
  [][\A r \in Runs :
       LET ops == OpsOf(hist'[r])
       IN /\ \A k \in 1 .. Len(ops) :
               ops[k].op = "RELATE" =>
                 \E j \in 1 .. k - 1 : ops[j].op = "DEFINE" /\ ops[j].table = ops[k].table
          /\ EdgeTablesOf(edges', r) = RelatedTablesOf(ops)
          /\ \A t \in tables : defineTable(tables, t) = tables
          /\ SubSeq(edges', 1, Len(edges)) = edges
    ]_vars

\* a run that defined NEXT twice and has both chain edges, and an edge of
\* another table after that table's DEFINE
C19_Witness ==
  LET ops == OpsOf(hist[FaultRun])
  IN /\ \E j, k \in 1 .. Len(ops) :
          /\ j < k
          /\ ops[j] = Define(NextTable, TRUE)
          /\ ops[k] = Define(NextTable, TRUE)
     /\ Len(SelectSeq(edges, LAMBDA e : e.table = NextTable)) = 2
     /\ \E i \in 1 .. Len(edges) : edges[i].table # NextTable

\* C20: the rows of a run are taken in input order, one per iteration: an
\* iteration appends the entry of the next row and leaves the earlier entries
\* alone, and the cursor, the counters and the edges of the run, like the
\* nodes, change only in such an iteration, after every earlier row's.
C20_RowsInOrder ==
  [][\A r \in Runs :
       /\ hist'[r] # hist[r] =>
            /\ RowStep(r)
            /\ SubSeq(hist'[r], 1, Len(hist[r])) = hist[r]
            /\ Last(hist'[r]).index = Len(hist[r]) + 1
            /\ Last(hist'[r]).row = rows[r][Len(hist[r]) + 1]
       /\ \A k \in 1 .. Len(hist'[r]) : hist'[r][k].index = k
       /\ ( \/ lastEventId'[r] # lastEventId[r]
            \/ entitiesInserted'[r] # entitiesInserted[r]
            \/ relsInserted'[r] # relsInserted[r]
            \/ EdgeTablesOf(edges', r) # EdgeTablesOf(edges, r) ) => RowStep(r)
       /\ entity' # entity => \E q \in Runs : RowStep(q)
    ]_vars

\* a finished run of three rows that each wrote an event, chained in row order
C20_Witness ==
  \E r \in Runs :
    /\ pc[r] = "done"
    /\ Len(hist[r]) = 3
    /\ \A k \in 1 .. 3 : hist[r][k].index = k /\ EventEntities(hist[r][k].result) # <<>>
    /\ Len(NextPairs(r)) = 2

\* the store and the locals of a request that starts on an empty store
AloneStore ==
  [ent |-> {}, tables |-> SchemaTables, edges |-> <<>>, entitiesInserted |-> 0,
   relsInserted |-> 0, lastEventId |-> NoId, threw |-> FALSE, ops |-> <<>>]

\* the run r executed alone on the extraction results of the rows of h
RECURSIVE runAlone(_, _, _)
runAlone(s, h, r) ==
  IF h = <<>> THEN s
  ELSE runAlone(reconcileRow(s, Head(h).result, r, "none"), Tail(h), r)

\* the NEXT edges of run r among recs, as <<from, to>>, in write order
NextPairsIn(recs, r) ==
  LET ne == SelectSeq(recs, LAMBDA e : e.table = NextTable /\ e.source = r)
  IN [i \in 1 .. Len(ne) |-> <<ne[i].in, ne[i].out>>]

\* C21: under any interleaving of the rows of two runs, the NEXT edges a run
\* has written are the ones it writes when it runs alone, on an empty store,
\* over the same extraction results, and a row of one run leaves the cursor of
\* the other run as it was.
C21_ChainIsolation ==
  [][\A r \in Runs :
       /\ NextPairsIn(edges', r) = NextPairsIn(runAlone(AloneStore, hist'[r], r).edges, r)
       /\ \A q \in Runs \ {r} : RowStep(q) => lastEventId'[r] = lastEventId[r]
    ]_vars

\* run 1 wrote event A, then run 2 wrote events A and b, then run 1 wrote
\* event b: run 1 chained a -> b, run 2 chained nothing
C21_Witness ==
  /\ pc[1] = "rows" /\ pc[2] = "rows"
  /\ Len(hist[1]) = 2 /\ Len(hist[2]) = 1
  /\ hist[1][1].result = Result(<<EvLogin>>, <<>>)
  /\ hist[1][2].result = Result(<<EvBuy>>, <<>>)
  /\ hist[2][1].result = Result(<<EvLogin, ActBuy>>, <<RelBtoA>>)
  /\ NodeOf(entity, EntityId(<<"A">>)).source = 1
  /\ NodeOf(entity, EntityId(<<"b">>)).source = 2
  /\ NextPairs(1) = <<<<EntityId(<<"A">>), EntityId(<<"b">>)>>>>
  /\ NextPairs(2) = <<>>
  /\ lastEventId[2] = EntityId(<<"b">>)

\* the ids of the endpoints of the valid relationships of a result
EndpointsOf(result) ==
  LET valid == ValidRels(result)
  IN UNION {{EntityId(valid[i].from), EntityId(valid[i].to)} : i \in 1 .. Len(valid)}

\* the tables of the valid relationships of a result
RelTablesOf(result) ==
  LET valid == ValidRels(result)
  IN {relTypeOf(valid[i].type) : i \in 1 .. Len(valid)}

\* C22: a relationship whose from or to is empty or absent leaves no trace:
\* the placeholder nodes a row creates are endpoints of its relationships with
\* both ends, the tables it defines and the edges it writes are those of these
\* relationships (and of the chain), one edge at most for each, and the
\* relationships counter grows by the number of edges written.
C22_InvalidRelationshipSkipped ==
  [][\A r \in Runs :
       RowStep(r) =>
         LET res == Last(hist'[r]).result
             valid == ValidRels(res)
             written == SubSeq(edges', Len(edges) + 1, Len(edges'))
             extracted == SelectSeq(written, LAMBDA e : e.table # NextTable)
         IN /\ \A n \in entity' :
                 (n.type = "Implicit" /\ ~HasNode(entity, n.id)) => n.id \in EndpointsOf(res)
            /\ tables' \ tables \subseteq RelTablesOf(res) \cup {NextTable}
            /\ Len(extracted) <= Len(valid)
            /\ \A j \in 1 .. Len(extracted) :
                 \E i \in 1 .. Len(valid) :
                   /\ extracted[j].table = relTypeOf(valid[i].type)
                   /\ extracted[j].in = EntityId(valid[i].from)
                   /\ extracted[j].out = EntityId(valid[i].to)
            /\ relsInserted'[r] - relsInserted[r] = Len(written)
            /\ (valid = <<>> /\ EventEntities(res) = <<>>) =>
                 /\ edges' = edges
                 /\ tables' = tables
                 /\ relsInserted' = relsInserted
    ]_vars

\* a run that was given {to: "c"} without from and {from: "c"} without to:
\* no node c or unknown, no table N, the two edges of the other relationships
C22_Witness ==
  \E r \in Runs :
    /\ \E i \in 1 .. Len(hist[r]) :
         hist[r][i].fault = "none" /\ hist[r][i].result.relationships = <<RelNoFrom, RelDtoE>>
    /\ \E i \in 1 .. Len(hist[r]) :
         hist[r][i].fault = "none" /\ hist[r][i].result.relationships = <<RelAtoD, RelNoTo>>
    /\ ~HasNode(entity, EntityId(<<"c">>))
    /\ ~HasNode(entity, EntityId(<<>>))
    /\ relTypeOf(<<"n">>) \notin tables
    /\ Len(edges) = 2
    /\ relsInserted[r] = 2

\* the lines of a request that the row loop can see
LinesOf(req) == nonBlankLines(req.text)

\* the first rule of the mapping names a header that the first line contains
FirstRuleInFirstLine(req) ==
  /\ req.mapping.present
  /\ Len(req.mapping.rules) > 0
  /\ Len(LinesOf(req)) > 0
  /\ includes(LinesOf(req)[1], req.mapping.rules[1].header_column)

\* C23: the first line is discarded as a header exactly when the mapping has
\* a first rule whose header_column appears in it; with an empty or absent
\* mapping the rows are all the lines, and the first row processed is the
\* first line.
C23_HeaderDetection ==
  \A r \in Runs :
    request[r].present =>
      /\ FirstRuleInFirstLine(request[r]) => rows[r] = Tail(LinesOf(request[r]))
      /\ ~FirstRuleInFirstLine(request[r]) =>
           /\ rows[r] = LinesOf(request[r])
           /\ Len(hist[r]) > 0 => hist[r][1].row = LinesOf(request[r])[1]

\* the lines of a request after the header removal
DataLinesOf(req) ==
  IF FirstRuleInFirstLine(req) THEN Tail(LinesOf(req)) ELSE LinesOf(req)

Min(a, b) == IF a < b THEN a ELSE b

\* C24: a run calls the extraction for at most BATCH_SIZE rows, the k-th call
\* being for the k-th line after header removal, and it ends after
\* min(BATCH_SIZE, number of such lines) rows: with rows that each yield one
\* event, its counters and its edges are those of that many rows.
C24_BatchCap ==
  \A r \in Runs :
    request[r].present =>
      LET data == DataLinesOf(request[r])
          n == Min(Len(data), BATCH_SIZE)
      IN /\ Len(hist[r]) <= n
         /\ \A k \in 1 .. Len(hist[r]) : hist[r][k].index = k /\ hist[r][k].row = data[k]
         /\ pc[r] = "done" =>
              /\ Len(hist[r]) = n
              /\ (\A k \in 1 .. n : SingleEventRow(hist[r][k])) =>
                   /\ response[r].entitiesInserted = n
                   /\ Len(EdgesOf(r)) = n - 1
                   /\ response[r].relsInserted = n - 1

\* a finished run of a text with a header and BATCH_SIZE + 1 lines after it
C24_Witness ==
  \E r \in Runs :
    /\ request[r].present
    /\ pc[r] = "done"
    /\ Len(request[r].text) = BATCH_SIZE + 2
    /\ Len(DataLinesOf(request[r])) = BATCH_SIZE + 1
    /\ Len(hist[r]) = BATCH_SIZE
    /\ Last(hist[r]).row = request[r].text[BATCH_SIZE + 1]
    /\ response[r].entitiesInserted = BATCH_SIZE
    /\ Len(edges) = BATCH_SIZE - 1

\* the stored edges a load with the view's filter can return
ReadableEdges ==
  SelectSeq(edges, LAMBDA e : /\ e.in # NoId /\ e.out # NoId
                               /\ (view.filter # NoFilter => e.source = view.filter))

\* C25: a load whose queries went through scanned exactly the tables of the
\* catalog outside the fixed exclusion list: every table ingestion wrote an
\* edge to, NEXT included, is scanned and all its edges are read, the entity
\* table is not scanned, and when nothing is left to scan the relationship
\* list is empty.
C25_TableDiscovery ==
  (view.loaded /\ ~view.queryFailed) =>
    /\ view.scanned =
         tables \ {T_entity, T_document, T_relationship_def, T_data_source_config,
                   T_user, T_session}
    /\ \A i \in 1 .. Len(edges) : edges[i].table \in view.scanned
    /\ Len(view.relationships) + view.hiddenCount = Len(ReadableEdges)
    /\ T_entity \notin view.scanned
    /\ view.scanned = {} => (view.relationships = <<>> /\ view.hiddenCount = 0)

\* a load that scanned NEXT and a table of an extracted type and read an edge
\* of each, on a store whose catalog had no other table to scan
C25_Witness ==
  /\ view.loaded /\ ~view.queryFailed
  /\ view.filter = NoFilter
  /\ view.scanned = {NextTable, relTypeOf(<<"h", "-", "x">>)}
  /\ \E i \in 1 .. Len(view.relationships) : view.relationships[i].type = NextTable
  /\ \E i \in 1 .. Len(view.relationships) :
       view.relationships[i].type = relTypeOf(<<"h", "-", "x">>)

\* a load on a catalog of node tables only: nothing to scan, nothing read
C25_WitnessEmpty ==
  /\ view.loaded /\ ~view.queryFailed
  /\ view.scanned = {}
  /\ entity # {}
  /\ view.relationships = <<>>

\* C26: no step of a run removes a node, a table or an edge record, or changes
\* an edge record that is stored: the edges only grow at the end.  A row
\* written without a store failure appends an edge for each relationship
\* with both ends, whether or not an equal edge is stored already.  The step
\* that aborts a run (a throw or the host's timeout) leaves every node and
\* every edge of the rows before it in the store.
C26_AppendOnly ==
  [][/\ \A n \in entity : HasNode(entity', n.id)
     /\ tables \subseteq tables'
     /\ Len(edges') >= Len(edges)
     /\ SubSeq(edges', 1, Len(edges)) = edges
     /\ \A r \in Runs :
          /\ (RowStep(r) /\ ~Last(hist'[r]).threw /\ Last(hist'[r]).fault = "none") =>
               Len(SelectSeq(SubSeq(edges', Len(edges) + 1, Len(edges')),
                             LAMBDA e : e.table # NextTable))
                 = Len(ValidRels(Last(hist'[r]).result))
          /\ (pc[r] = "rows" /\ pc'[r] = "failed") =>
               /\ \A n \in entity : n \in entity' \/ RowStep(r)
               /\ EdgesOf(r) = SelectSeq(edges', LAMBDA e : e.source = r)
    ]_vars

\* the same relationship written by two rows is stored twice, and both
\* records are there after the third row aborted the run
C26_Witness ==
  \E r \in Runs :
    /\ pc[r] = "failed"
    /\ Len(hist[r]) = 3
    /\ Last(hist[r]).threw
    /\ hist[r][1].result.relationships = <<RelBtoA>>
    /\ hist[r][2].result.relationships = <<RelBtoA>>
    /\ \E i, j \in 1 .. Len(edges) :
         /\ i < j
         /\ edges[i] = edges[j]
         /\ edges[i].table = relTypeOf(RelBtoA.type)
    /\ entitiesInserted[r] = 4

\* a run the host stopped after two rows: their nodes and edges are stored
C26_WitnessTimeout ==
  \E r \in Runs :
    /\ pc[r] = "failed"
    /\ response[r].status = 504
    /\ Len(hist[r]) = 2
    /\ Len(rows[r]) = 3
    /\ Len(NextPairs(r)) = 1
    /\ entity # {}

\* C27: a row leaves a stored node that is an endpoint of one of its
\* relationships, and that none of its entities is written to, exactly as it
\* was; and a node of type "Implicit" keeps that type, its label and its
\* metadata.source through every step, also when a row asserts its label as a
\* typed entity (only its properties are merged into).
C27_HealingLeavesNodesAlone ==
  [][/\ \A r \in Runs :
          RowStep(r) =>
            \A x \in EndpointsOf(Last(hist'[r]).result) :
              (HasNode(entity, x) /\ UpsertsOf(Last(hist'[r]).result, x) = <<>>) =>
                /\ NodeOf(entity, x) \in entity'
                /\ Cardinality({n \in entity' : n.id = x}) = 1
     /\ \A n \in entity :
          n.type = "Implicit" =>
            \A m \in entity' :
              m.id = n.id => (m.type = "Implicit" /\ m.label = n.label /\ m.source = n.source)
    ]_vars

\* the placeholder for "B" of the row {c-1 -> B}, then a row that asserts the
\* event " b" and a row with {b -> A}: the node is still Implicit with label
\* "B"; and the typed node c_1, an endpoint that existed, is as it was written
C27_Witness ==
  \E r \in Runs :
    /\ Len(hist[r]) = 3
    /\ hist[r][1].result = Result(<<EvLog>>, <<RelCtoB>>)
    /\ hist[r][2].result = Result(<<EvBuy>>, <<>>)
    /\ hist[r][3].result = Result(<<EvLogin, ActBuy>>, <<RelBtoA>>)
    /\ \A i \in 1 .. 3 : hist[r][i].fault = "none"
    /\ Node(EntityId(<<"B">>), <<"B">>, "Implicit", Props(Absent, 1), r) \in entity
    /\ Node(EntityId(<<"c", "-", "1">>), <<"c", "-", "1">>, "Log", EmptyProps, r) \in entity
    /\ Len(NextPairs(r)) = 2

\* the edges the chaining step wrote for run r among recs
ChainEdgesIn(recs, r) ==
  SelectSeq(recs, LAMBDA e : e.table = NextTable /\ e.type = SequenceType /\ e.source = r)

\* C28: a step of a run adds at most one chain edge, and adds one only when
\* it is a row with a labelled event-like entity that comes after another
\* such row of the run; the chain edges of a run number at most its rows with
\* such an entity minus one, and a run with one such row has none.
C28_ChainEdgeCount ==
  [][\A r \in Runs :
       LET before == Len(ChainEdgesIn(edges, r))
           after == Len(ChainEdgesIn(edges', r))
       IN /\ after <= before + 1
          /\ after = before + 1 =>
               /\ RowStep(r)
               /\ EventEntities(Last(hist'[r]).result) # <<>>
               /\ \E k \in 1 .. Len(hist[r]) : EventEntities(hist[r][k].result) # <<>>
          /\ after >= before
          /\ Len(EventRows(hist'[r])) = 0 => after = 0
          /\ Len(EventRows(hist'[r])) > 0 => after <= Len(EventRows(hist'[r])) - 1
    ]_vars

\* three rows: an event, no event, two events: one chain edge, written at the
\* third row
C28_Witness ==
  \E r \in Runs :
    /\ Len(hist[r]) = 3
    /\ hist[r][1].result = Result(<<EvLog>>, <<RelCtoB>>)
    /\ EventEntities(hist[r][2].result) = <<>>
    /\ hist[r][3].result = Result(<<EvLogin, ActBuy>>, <<RelBtoA>>)
    /\ Len(EventRows(hist[r])) = 2
    /\ Len(ChainEdgesIn(edges, r)) = 1
    /\ Last(edges).table = NextTable

\* C29: a row written with several labelled event-like entities has the last
\* of them, in extraction order, as its current event: the cursor moves to
\* that entity, and the chain edge of the row, when there is a last event,
\* goes from it to that entity; no chain edge of the row starts or ends at
\* another event of the row.
C29_LastEventWins ==
  [][\A r \in Runs :
       ( /\ RowStep(r)
         /\ ~Last(hist'[r]).threw
         /\ Last(hist'[r]).fault \notin {"entity", "next"}
         /\ Len(EventEntities(Last(hist'[r]).result)) >= 1 ) =>
         LET events == EventEntities(Last(hist'[r]).result)
             cur == EntityId(Last(events).label)
             chained == SubSeq(ChainEdgesIn(edges', r),
                               Len(ChainEdgesIn(edges, r)) + 1, Len(ChainEdgesIn(edges', r)))
         IN /\ lastEventId'[r] = cur
            /\ chained = IF lastEventId[r] = NoId THEN <<>>
                         ELSE <<Edge(NextTable, lastEventId[r], cur, r, SequenceType, Absent)>>
    ]_vars

\* the event c-1, then a row with the events A and b: the chain edge is
\* c_1 -> b, the cursor is b, and a is on no chain edge
C29_Witness ==
  \E r \in Runs :
    /\ Len(hist[r]) = 2
    /\ hist[r][1].result = Result(<<EvLog>>, <<RelCtoB>>)
    /\ hist[r][2].result = Result(<<EvLogin, ActBuy>>, <<RelBtoA>>)
    /\ hist[r][2].fault = "none"
    /\ NextPairs(r) = <<<<EntityId(<<"c", "-", "1">>), EntityId(<<"b">>)>>>>
    /\ lastEventId[r] = EntityId(<<"b">>)
    /\ HasNode(entity, EntityId(<<"A">>))

\* the positions of the stored edges of document d, in write order
RECURSIVE EdgePositions(_, _, _)
EdgePositions(recs, d, i) ==
  IF i > Len(recs) THEN <<>>
  ELSE IF recs[i].source = d THEN <<i>> \o EdgePositions(recs, d, i + 1)
  ELSE EdgePositions(recs, d, i + 1)

\* C30: every edge a row of run r writes, extracted or chain edge, has source
\* r; and a read of the relationships with the filter of a document, when its
\* queries go through, returns the edges with that source, all of them and no
\* other, each with its two ends.
C30_SourceScoping ==
  [][/\ \A r \in Runs :
          RowStep(r) => \A j \in (Len(edges) + 1) .. Len(edges') : edges'[j].source = r
     /\ (\A r \in Runs : ~RowStep(r)) => edges' = edges
     /\ (view'.loaded /\ view'.filter # NoFilter /\ ~view'.queryFailed) =>
          LET mine == EdgePositions(edges', view'.filter, 1)
          IN /\ Len(view'.fetched) = Len(mine)
             /\ \A k \in 1 .. Len(mine) :
                  /\ view'.fetched[k].id = RecordId(edges'[mine[k]].table, mine[k])
                  /\ view'.fetched[k].from = edges'[mine[k]].in
                  /\ view'.fetched[k].to = edges'[mine[k]].out
                  /\ view'.fetched[k].source = view'.filter
    ]_vars

\* two runs that wrote edges; the read for the second document returned its
\* two edges, a chain edge among them, and none of the first document
C30_Witness ==
  /\ view.loaded /\ ~view.queryFailed
  /\ view.filter = 2
  /\ Len(EdgesOf(1)) >= 1
  /\ Len(EdgesOf(2)) = 2
  /\ Len(view.fetched) = 2
  /\ \E k \in 1 .. 2 : view.fetched[k].type = NextTable
  /\ \A k \in 1 .. 2 : view.fetched[k].source = 2

====
